---- MODULE Spec2Model ----
(***************************************************************************)
(* Task lifecycle coordinator of sample-project-for-aop: TaskService over  *)
(* the in-memory TaskRepository / UserRepository, the CacheService and the *)
(* TransactionManager.                                                     *)
(*                                                                         *)
(* Strings the code inspects character by character (task titles,          *)
(* descriptions) are sequences of one-character strings.  Times are whole  *)
(* seconds since the Unix epoch (the code's milliseconds divided by 1000). *)
(* A JavaScript object with optional fields is a record whose DOMAIN holds *)
(* exactly the fields that are not undefined.                              *)
(***************************************************************************)
EXTENDS Integers, Sequences, FiniteSets, TLC

VARIABLES
    users,      \* UserRepository.users : sequence of User records
    tasks,      \* TaskRepository.tasks : sequence of Task records
    cache,      \* CacheService.cache   : key -> [data, expiry]
    tx,         \* TransactionManager   : [isActive, operations]
    now,        \* the wall clock (Date.now(), new Date()), in seconds
    uuids,      \* number of task identifiers crypto.randomUUID() has produced
    ticks,      \* number of clock advances so far (bounds the clock)
    written,    \* history: key -> the last CacheService.set made on it
    last,       \* observation of the last call: what it threw or returned
    context,    \* AuthContext.context : null, or [userId, role]
    res,        \* the response of the last request a controller handled
    queue       \* the microtask queue: the TaskService calls suspended at an await

vars ==
    <<users, tasks, cache, tx, now, uuids, ticks, written, last, context, res, queue>>

----------------------------------------------------------------------------
(* Bounds of the model *)

MaxUsers == 2
MaxTasks == 2
MaxTicks == 1
MaxQueue == 2
\* TaskService calls suspended at an await at one time
MaxCalls == 2

----------------------------------------------------------------------------
(* JavaScript strings *)

UpperCase == <<"A","B","C","D","E","F","G","H","I","J","K","L","M",
               "N","O","P","Q","R","S","T","U","V","W","X","Y","Z">>
LowerCase == <<"a","b","c","d","e","f","g","h","i","j","k","l","m",
               "n","o","p","q","r","s","t","u","v","w","x","y","z">>
WhiteSpace == {" ", "\t", "\n", "\r"}

\* the lower-case letter of each upper-case letter
LowerOf ==
    [c \in {UpperCase[i] : i \in 1..Len(UpperCase)} |->
        LowerCase[CHOOSE i \in 1..Len(UpperCase) : UpperCase[i] = c]]

\* String.prototype.toLowerCase, one character
toLowerChar(c) == IF c \in DOMAIN LowerOf THEN LowerOf[c] ELSE c

\* String.prototype.toLowerCase
toLowerCase(s) == [i \in 1..Len(s) |-> toLowerChar(s[i])]

RECURSIVE firstNonSpace(_, _)
\* the first index from i on that holds no white space (Len(s) + 1 if none)
firstNonSpace(s, i) ==
    IF i > Len(s) \/ s[i] \notin WhiteSpace THEN i ELSE firstNonSpace(s, i + 1)

RECURSIVE lastNonSpace(_, _)
\* the last index up to i that holds no white space (0 if none)
lastNonSpace(s, i) ==
    IF i < 1 \/ s[i] \notin WhiteSpace THEN i ELSE lastNonSpace(s, i - 1)

\* String.prototype.trim: strips white space from both ends
trim(s) == SubSeq(s, firstNonSpace(s, 1), lastNonSpace(s, Len(s)))

\* String.prototype.includes: p occurs in s as a contiguous substring
includes(s, p) ==
    \E i \in 0..(Len(s) - Len(p)) : SubSeq(s, i + 1, i + Len(p)) = p

\* Array.prototype.includes
arrayIncludes(arr, x) == \E i \in 1..Len(arr) : arr[i] = x

\* a string of n copies of character c
Repeat(c, n) == [i \in 1..n |-> c]

----------------------------------------------------------------------------
(* JavaScript Date, in whole seconds of UTC *)

SecondsPerDay == 24 * 60 * 60

IsLeapYear(y) == (y % 4 = 0 /\ y % 100 # 0) \/ y % 400 = 0
DaysInYear(y) == IF IsLeapYear(y) THEN 366 ELSE 365
DaysInMonth(y, m) ==
    IF m = 2 THEN (IF IsLeapYear(y) THEN 29 ELSE 28)
    ELSE IF m \in {4, 6, 9, 11} THEN 30 ELSE 31

\* days from 1970-01-01 to the first day of year y (y >= 1970): 365 a year
\* and one more for each leap year from 1970 to y - 1
DaysBeforeYear(y) ==
    365 * (y - 1970) + ((y - 1969) \div 4) - ((y - 1901) \div 100) + ((y - 1601) \div 400)

\* days from the first day of a common year to the first day of its month m
CommonDaysBefore == <<0, 31, 59, 90, 120, 151, 181, 212, 243, 273, 304, 334, 365>>
\* days from the first day of year y to the first day of its month m (m = 13:
\* to the end of the year)
DaysBeforeMonth(y, m) == CommonDaysBefore[m] + (IF m > 2 /\ IsLeapYear(y) THEN 1 ELSE 0)

RECURSIVE YearOfDay(_, _)
\* the year holding day number d (days since 1970-01-01), searching from year y
YearOfDay(d, y) == IF d < DaysBeforeYear(y + 1) THEN y ELSE YearOfDay(d, y + 1)

RECURSIVE MonthOfDay(_, _, _)
\* the month of year y holding its day number d (0-based), searching from month m
MonthOfDay(y, d, m) == IF d < DaysBeforeMonth(y, m + 1) THEN m ELSE MonthOfDay(y, d, m + 1)

\* Date.UTC-like: the time of y-m-day (day may overflow the month) plus secs
MakeTime(y, m, day, secs) ==
    (DaysBeforeYear(y) + DaysBeforeMonth(y, m) + (day - 1)) * SecondsPerDay + secs

\* Date.prototype.setFullYear(getFullYear() + n): same month, day and time of
\* day n years later; 29 February overflows into 1 March of a common year
addYears(t, n) ==
    LET d    == t \div SecondsPerDay
        secs == t % SecondsPerDay
        y    == YearOfDay(d, 1970 + (d \div 366))
        doy  == d - DaysBeforeYear(y)
        m    == MonthOfDay(y, doy, 1)
        day  == doy - DaysBeforeMonth(y, m) + 1
    IN  MakeTime(y + n, m, day, secs)

\* a Date object: a valid time, or Invalid Date (getTime() is NaN)
DateOf(t) == [valid |-> TRUE, time |-> t]
InvalidDate == [valid |-> FALSE]
\* isNaN(date.getTime())
dateIsNaN(d) == ~d.valid
\* faulty variant: a <= b
dateLT_orEqual(a, b) == a.valid /\ b.valid /\ a.time <= b.time

\* a < b and a > b on Dates: every comparison with NaN is false
dateLT(a, b) == a.valid /\ b.valid /\ a.time < b.time
dateGT(a, b) == a.valid /\ b.valid /\ a.time > b.time

----------------------------------------------------------------------------
(* Errors (src/src/errors/BaseError.ts) and JavaScript's undefined / null *)

NoError == [name |-> "none"]
ValidationError(msg) == [name |-> "ValidationError", message |-> msg]
NotFoundError(msg) == [name |-> "NotFoundError", message |-> msg]
UnauthorizedError(msg) == [name |-> "UnauthorizedError", message |-> msg]
ForbiddenError(msg) == [name |-> "ForbiddenError", message |-> msg]
\* a plain Error, as the TransactionManager throws
Error(msg) == [name |-> "Error", message |-> msg]

Undefined == [undefined |-> TRUE]
Null == [null |-> TRUE]
\* JavaScript truthiness of an optional enum-valued (string) field
Truthy(obj, f) == f \in DOMAIN obj /\ obj[f] # ""
\* JavaScript truthiness of an optional text field (a sequence of characters)
TruthyText(obj, f) == f \in DOMAIN obj /\ obj[f] # <<>>
\* the fields of obj among fs, as an object of their own
Pick(obj, fs) == [k \in (DOMAIN obj) \cap fs |-> obj[k]]

\* crypto.randomUUID(): the n-th identifier of its kind, never produced before
Uuid(kind, n) == <<kind, n>>

----------------------------------------------------------------------------
(* TransactionManager (src/unnamed/part_001) *)

\* faulty variant: begin() leaves the transaction inactive
Tx_begin_inactive(t) == [isActive |-> FALSE, operations |-> << >>]

\* faulty variant: a begin() on an active transaction keeps its queue
Tx_begin_nested(t) == [isActive |-> TRUE, operations |-> t.operations]

\* begin(): never fails; drops whatever was queued
Tx_begin(t) == [isActive |-> TRUE, operations |-> <<>>]

\* faulty variant: commit() does not look at isActive
Tx_commit_unchecked(t) ==
    [tx |-> [isActive |-> FALSE, operations |-> << >>], threw |-> NoError]

\* faulty variant: commit() leaves the transaction active
Tx_commit_staysActive(t) ==
    IF ~t.isActive
    THEN [tx |-> t, threw |-> Error("No active transaction to commit")]
    ELSE [tx |-> [isActive |-> TRUE, operations |-> << >>], threw |-> NoError]

\* commit(): [tx, threw]
Tx_commit(t) ==
    IF ~t.isActive
    THEN [tx |-> t, threw |-> Error("No active transaction to commit")]
    ELSE [tx |-> [isActive |-> FALSE, operations |-> <<>>], threw |-> NoError]

\* faulty variant: rollback() does not look at isActive
Tx_rollback_unchecked(t) ==
    [tx |-> [isActive |-> FALSE, operations |-> <<>>], threw |-> NoError]

\* rollback(): [tx, threw]; the queued operations are dropped, never run
Tx_rollback(t) ==
    IF ~t.isActive
    THEN [tx |-> t, threw |-> Error("No active transaction to rollback")]
    ELSE [tx |-> [isActive |-> FALSE, operations |-> <<>>], threw |-> NoError]

\* addOperation(operation): [tx, threw]
Tx_addOperation(t, operation) ==
    IF ~t.isActive
    THEN [tx |-> t, threw |-> Error("No active transaction")]
    ELSE [tx |-> [t EXCEPT !.operations = Append(@, operation)], threw |-> NoError]

----------------------------------------------------------------------------
(* CacheService (src/src/services/UserService.ts, second part) *)

defaultTTL == 60000 \div 1000   \* 60000 ms

\* faulty variant: the entry expires at the time it is set
Cache_set_noTtl(c, key, value, ttl, t) ==
    [k \in (DOMAIN c) \cup {key} |->
        IF k = key THEN [data |-> value, expiry |-> t] ELSE c[k]]

\* set(key, value, ttl) at time t
Cache_set(c, key, value, ttl, t) ==
    [k \in (DOMAIN c) \cup {key} |->
        IF k = key THEN [data |-> value, expiry |-> t + ttl] ELSE c[k]]

\* the history of set calls after set(key, value, ttl) at time t
Written(w, key, value, ttl, t) ==
    [k \in (DOMAIN w) \cup {key} |->
        IF k = key THEN [value |-> value, at |-> t, ttl |-> ttl] ELSE w[k]]

\* faulty variant: invalidate(key) keeps the entry
Cache_invalidate_keeps(c, key) == c

\* Map.delete(key)
Cache_invalidate(c, key) == [k \in (DOMAIN c) \ {key} |-> c[k]]

\* faulty variant: an entry is expired from its expiry time on
Cache_get_expiredAtExpiry(c, key, t) ==
    IF key \notin DOMAIN c THEN [cache |-> c, value |-> Null]
    ELSE IF t >= c[key].expiry
         THEN [cache |-> Cache_invalidate(c, key), value |-> Null]
         ELSE [cache |-> c, value |-> c[key].data]

\* get(key) at time t: [cache, value]; an expired entry is deleted
Cache_get(c, key, t) ==
    IF key \notin DOMAIN c THEN [cache |-> c, value |-> Null]
    ELSE IF t > c[key].expiry
         THEN [cache |-> Cache_invalidate(c, key), value |-> Null]
         ELSE [cache |-> c, value |-> c[key].data]

\* faulty variant: clear() keeps the entries
Cache_clear_keeps(c) == c

\* clear()
Cache_clear(c) == << >>

\* the keys TaskService builds: `task:${id}` and `tasks:owner:${ownerId}`
TaskKey(id) == <<"task:", id>>
OwnerKey(ownerId) == <<"tasks:owner:", ownerId>>

----------------------------------------------------------------------------
(* UserRepository (src/src/repositories/UserRepository.ts) *)

User_save(us, user) == Append(us, user)

\* Array.prototype.find: the first match, or undefined
User_findById(us, id) ==
    IF \E i \in 1..Len(us) : us[i].id = id
    THEN us[CHOOSE i \in 1..Len(us) :
                us[i].id = id /\ \A j \in 1..(i - 1) : us[j].id # id]
    ELSE Undefined

----------------------------------------------------------------------------
(* TaskRepository (src/unnamed/part_002) *)

Repo_save(ts, task) == Append(ts, task)

\* faulty variant: the filter keeps the task instead of dropping it
Repo_delete_inverted(ts, id) == SelectSeq(ts, LAMBDA t : t.id = id)

Repo_delete(ts, id) == SelectSeq(ts, LAMBDA t : t.id # id)

\* Array.prototype.findIndex, 1-based; 0 where JavaScript gives -1
Repo_findIndex(ts, id) ==
    IF \E i \in 1..Len(ts) : ts[i].id = id
    THEN CHOOSE i \in 1..Len(ts) : ts[i].id = id /\ \A j \in 1..(i - 1) : ts[j].id # id
    ELSE 0

Repo_findById(ts, id) ==
    IF Repo_findIndex(ts, id) = 0 THEN Undefined ELSE ts[Repo_findIndex(ts, id)]

\* { ...a, ...b }
Spread(a, b) ==
    [k \in (DOMAIN a) \cup (DOMAIN b) |-> IF k \in DOMAIN b THEN b[k] ELSE a[k]]

\* update(id, updates): [tasks, result]
Repo_update(ts, id, updates) ==
    LET index == Repo_findIndex(ts, id)
    IN  IF index = 0 THEN [tasks |-> ts, result |-> Undefined]
        ELSE [tasks  |-> [ts EXCEPT ![index] = Spread(ts[index], updates)],
              result |-> Spread(ts[index], updates)]

\* faulty variant: excludeId is ignored
Repo_findByOwnerAndTitlePattern_noExclude(ts, ownerId, titlePattern, excludeId) ==
    SelectSeq(ts, LAMBDA t :
        /\ t.ownerId = ownerId
        /\ includes(toLowerCase(t.title), toLowerCase(titlePattern)))

\* faulty variant: the match is case-sensitive
Repo_findByOwnerAndTitlePattern_caseSensitive(ts, ownerId, titlePattern, excludeId) ==
    SelectSeq(ts, LAMBDA t :
        /\ t.ownerId = ownerId
        /\ includes(t.title, titlePattern)
        /\ (excludeId = Undefined \/ t.id # excludeId))

\* findByOwnerAndTitlePattern(ownerId, titlePattern, excludeId?);
\* excludeId is Undefined when the argument is not passed
Repo_findByOwnerAndTitlePattern(ts, ownerId, titlePattern, excludeId) ==
    SelectSeq(ts, LAMBDA t :
        /\ t.ownerId = ownerId
        /\ includes(toLowerCase(t.title), toLowerCase(titlePattern))
        /\ (excludeId = Undefined \/ t.id # excludeId))

Repo_findByOwner(ts, ownerId) == SelectSeq(ts, LAMBDA t : t.ownerId = ownerId)

\* faulty variant: the count is the number of tasks before the deletion
Repo_deleteByOwner_countsAll(ts, ownerId) ==
    [tasks |-> SelectSeq(ts, LAMBDA t : t.ownerId # ownerId), deletedCount |-> Len(ts)]

\* deleteByOwner(ownerId): [tasks, deletedCount]
Repo_deleteByOwner(ts, ownerId) ==
    LET kept == SelectSeq(ts, LAMBDA t : t.ownerId # ownerId)
    IN  [tasks |-> kept, deletedCount |-> Len(ts) - Len(kept)]

\* faulty variant: counts the identifiers asked for, not the tasks removed
Repo_deleteMultiple_countsIds(ts, ids) ==
    [tasks |-> SelectSeq(ts, LAMBDA t : ~arrayIncludes(ids, t.id)), deletedCount |-> Len(ids)]

\* deleteMultiple(ids): [tasks, deletedCount]
Repo_deleteMultiple(ts, ids) ==
    LET kept == SelectSeq(ts, LAMBDA t : ~arrayIncludes(ids, t.id))
    IN  [tasks |-> kept, deletedCount |-> Len(ts) - Len(kept)]

----------------------------------------------------------------------------
(* TaskService (src/src/services/TaskService.ts) *)

\* what a call leaves to be observed: the method, its arguments, the error it
\* threw (or NoError), the value it returned, the TransactionManager calls it
\* made, and how many times it called TaskRepository.findById
Observe(op, args, threw, ret, txlog, reads) ==
    [op |-> op, args |-> args, threw |-> threw, ret |-> ret,
     txlog |-> txlog, reads |-> reads]

\* faulty variant: the lower title bound is taken on the raw title, the upper on the
\* trimmed one
create_validate_swappedLengths(dto, t) ==
    IF ~TruthyText(dto, "title")
        THEN ValidationError("Title is required")
    ELSE IF Len(dto.title) < 3
        THEN ValidationError("Title must be at least 3 characters long")
    ELSE IF Len(trim(dto.title)) > 100
        THEN ValidationError("Title must not exceed 100 characters")
    ELSE IF Truthy(dto, "priority") /\ ~arrayIncludes(<<"LOW", "MEDIUM", "HIGH">>, dto.priority)
        THEN ValidationError("Priority must be LOW, MEDIUM, or HIGH")
    ELSE NoError

\* create, lines 24-64: the validation that precedes the transaction; t is
\* the clock at the call (new Date() reads the same second throughout)
create_validate(dto, t) ==
    IF ~TruthyText(dto, "title")
        THEN ValidationError("Title is required")
    ELSE IF Len(trim(dto.title)) < 3
        THEN ValidationError("Title must be at least 3 characters long")
    ELSE IF Len(dto.title) > 100
        THEN ValidationError("Title must not exceed 100 characters")
    ELSE IF TruthyText(dto, "description") /\ Len(dto.description) > 500
        THEN ValidationError("Description must not exceed 500 characters")
    ELSE IF "deadline" \in DOMAIN dto /\ dateIsNaN(dto.deadline)
        THEN ValidationError("Invalid deadline date format")
    ELSE IF "deadline" \in DOMAIN dto /\ dateLT(dto.deadline, DateOf(t))
        THEN ValidationError("Deadline cannot be in the past")
    ELSE IF "deadline" \in DOMAIN dto /\ dateGT(dto.deadline, DateOf(addYears(t, 5)))
        THEN ValidationError("Deadline cannot be more than 5 years in the future")
    ELSE IF Truthy(dto, "priority") /\ ~arrayIncludes(<<"LOW", "MEDIUM", "HIGH">>, dto.priority)
        THEN ValidationError("Priority must be LOW, MEDIUM, or HIGH")
    ELSE NoError

\* update, lines 255-298
update_validate(dto, t) ==
    IF "title" \in DOMAIN dto /\ Len(trim(dto.title)) < 3
        THEN ValidationError("Title must be at least 3 characters long")
    ELSE IF "title" \in DOMAIN dto /\ Len(dto.title) > 100
        THEN ValidationError("Title must not exceed 100 characters")
    ELSE IF "description" \in DOMAIN dto /\ Len(dto.description) > 500
        THEN ValidationError("Description must not exceed 500 characters")
    ELSE IF "deadline" \in DOMAIN dto /\ dateIsNaN(dto.deadline)
        THEN ValidationError("Invalid deadline date format")
    ELSE IF "deadline" \in DOMAIN dto /\ dateLT(dto.deadline, DateOf(t))
        THEN ValidationError("Deadline cannot be in the past")
    ELSE IF "deadline" \in DOMAIN dto /\ dateGT(dto.deadline, DateOf(addYears(t, 5)))
        THEN ValidationError("Deadline cannot be more than 5 years in the future")
    ELSE IF Truthy(dto, "priority") /\ ~arrayIncludes(<<"LOW", "MEDIUM", "HIGH">>, dto.priority)
        THEN ValidationError("Priority must be LOW, MEDIUM, or HIGH")
    ELSE IF Truthy(dto, "status")
            /\ ~arrayIncludes(<<"TODO", "IN_PROGRESS", "DONE", "CANCELLED">>, dto.status)
        THEN ValidationError("Status must be TODO, IN_PROGRESS, DONE, or CANCELLED")
    ELSE NoError

\* try { ...; commit() } catch (error) { rollback(); throw error } on the
\* transaction t that begin() opened, where the body before commit() threw
\* bodyErr (or NoError): [tx, threw, txlog].  An error thrown by rollback()
\* itself replaces the error that was being handled.
closeTx(t, bodyErr) ==
    IF bodyErr = NoError
    THEN LET c == Tx_commit(t)
         IN  IF c.threw = NoError
             THEN [tx |-> c.tx, threw |-> NoError, txlog |-> <<"begin", "commit">>]
             ELSE LET r == Tx_rollback(c.tx)
                  IN  [tx    |-> r.tx,
                       threw |-> IF r.threw = NoError THEN c.threw ELSE r.threw,
                       txlog |-> <<"begin", "commit", "rollback">>]
    ELSE LET r == Tx_rollback(t)
         IN  [tx    |-> r.tx,
              threw |-> IF r.threw = NoError THEN bodyErr ELSE r.threw,
              txlog |-> <<"begin", "rollback">>]

\* faulty variant: the title is stored as given, not trimmed
create_task_rawTitle(dto, id, t) ==
    Spread([id        |-> id,
            title     |-> dto.title,
            status    |-> "TODO",
            priority  |-> IF Truthy(dto, "priority") THEN dto.priority ELSE "MEDIUM",
            ownerId   |-> dto.ownerId,
            createdAt |-> DateOf(t)],
           Spread(IF "description" \in DOMAIN dto
                  THEN [description |-> trim(dto.description)] ELSE << >>,
                  IF "deadline" \in DOMAIN dto
                  THEN [deadline |-> dto.deadline] ELSE << >>))

\* create, lines 85-94: the Task object built from the dto
create_task(dto, id, t) ==
    Spread([id        |-> id,
            title     |-> trim(dto.title),
            status    |-> "TODO",
            priority  |-> IF Truthy(dto, "priority") THEN dto.priority ELSE "MEDIUM",
            ownerId   |-> dto.ownerId,
            createdAt |-> DateOf(t)],
           Spread(IF "description" \in DOMAIN dto
                  THEN [description |-> trim(dto.description)] ELSE << >>,
                  IF "deadline" \in DOMAIN dto
                  THEN [deadline |-> dto.deadline] ELSE << >>))

\* faulty variant: the owner is not looked up
create_check_noOwnerLookup(us, ts, dto) ==
    IF Len(Repo_findByOwnerAndTitlePattern(ts, dto.ownerId, trim(dto.title), Undefined)) > 0
        THEN ValidationError("A task with similar title already exists for this user")
    ELSE NoError

\* create, lines 69-83: what the transactional region throws before it saves
create_check(us, ts, dto) ==
    IF User_findById(us, dto.ownerId) = Undefined
        THEN NotFoundError("Owner not found")
    ELSE IF Len(Repo_findByOwnerAndTitlePattern(ts, dto.ownerId, trim(dto.title), Undefined)) > 0
        THEN ValidationError("A task with similar title already exists for this user")
    ELSE NoError

\* async create(dto): Promise<Task>
\* (the handler's local values are bound by \E over a one-element set, which
\* computes each of them once)
create(dto) ==
    \E verr \in {create_validate(dto, now)} :
    \E berr \in {IF verr = NoError THEN create_check(users, tasks, dto) ELSE NoError} :
    \E end \in {closeTx(Tx_begin(tx), berr)} :
    \E task \in {create_task(dto, Uuid("task", uuids + 1), now)} :
        IF verr # NoError
        THEN /\ last' = Observe("create", dto, verr, Undefined, << >>, 0)
             /\ UNCHANGED <<users, tasks, cache, tx, now, uuids, ticks, written>>
        ELSE IF berr # NoError
        THEN /\ tx' = end.tx
             /\ last' = Observe("create", dto, end.threw, Undefined, end.txlog, 0)
             /\ UNCHANGED <<users, tasks, cache, now, uuids, ticks, written>>
        ELSE /\ tasks' = Repo_save(tasks, task)
             /\ uuids' = uuids + 1
             /\ tx' = end.tx
             /\ last' = Observe("create", dto, end.threw,
                                IF end.threw = NoError THEN task ELSE Undefined,
                                end.txlog, 0)
             /\ UNCHANGED <<users, cache, now, ticks, written>>

\* faulty variant: the cache entry of the task is not invalidated
delete_noInvalidate(id) ==
    /\ tasks' = Repo_delete(tasks, id)
    /\ last' = Observe("delete", id, NoError, Undefined, << >>, 0)
    /\ UNCHANGED <<users, cache, tx, now, uuids, ticks, written>>

\* async delete(id): Promise<void>
delete(id) ==
    /\ tasks' = Repo_delete(tasks, id)
    /\ cache' = Cache_invalidate(cache, TaskKey(id))
    /\ last' = Observe("delete", id, NoError, Undefined, << >>, 0)
    /\ UNCHANGED <<users, tx, now, uuids, ticks, written>>

\* async deleteByOwner(ownerId): Promise<number>
deleteByOwner(ownerId) ==
    \E d \in {Repo_deleteByOwner(tasks, ownerId)} :
    \E end \in {closeTx(Tx_begin(tx), NoError)} :
        IF User_findById(users, ownerId) = Undefined
        THEN /\ last' = Observe("deleteByOwner", ownerId, NotFoundError("Owner not found"),
                                Undefined, << >>, 0)
             /\ UNCHANGED <<users, tasks, cache, tx, now, uuids, ticks, written>>
        ELSE /\ tasks' = d.tasks
             /\ cache' = Cache_clear(cache)
             /\ tx' = end.tx
             /\ last' = Observe("deleteByOwner", ownerId, end.threw,
                                IF end.threw = NoError THEN d.deletedCount ELSE Undefined,
                                end.txlog, 0)
             /\ UNCHANGED <<users, now, uuids, ticks, written>>

RECURSIVE invalidateAll(_, _)
\* ids.forEach(id => this.cacheService.invalidate(`task:${id}`))
invalidateAll(c, ids) ==
    IF ids = << >> THEN c
    ELSE invalidateAll(Cache_invalidate(c, TaskKey(Head(ids))), Tail(ids))

\* async deleteMultiple(ids): Promise<number>
deleteMultiple(ids) ==
    \E d \in {Repo_deleteMultiple(tasks, ids)} :
    \E end \in {closeTx(Tx_begin(tx), NoError)} :
        IF Len(ids) = 0
        THEN /\ last' = Observe("deleteMultiple", ids,
                                ValidationError("At least one task ID required"),
                                Undefined, << >>, 0)
             /\ UNCHANGED <<users, tasks, cache, tx, now, uuids, ticks, written>>
        ELSE /\ tasks' = d.tasks
             /\ cache' = invalidateAll(cache, ids)
             /\ tx' = end.tx
             /\ last' = Observe("deleteMultiple", ids, end.threw,
                                IF end.threw = NoError THEN d.deletedCount ELSE Undefined,
                                end.txlog, 0)
             /\ UNCHANGED <<users, now, uuids, ticks, written>>

\* faulty variant: a miss of the Task Store is cached too
getById_cachesMiss(id) ==
    \E g \in {Cache_get(cache, TaskKey(id), now)} :
    \E task \in {Repo_findById(tasks, id)} :
        IF g.value # Null
        THEN /\ cache' = g.cache
             /\ last' = Observe("getById", id, NoError, g.value, << >>, 0)
             /\ UNCHANGED <<users, tasks, tx, now, uuids, ticks, written>>
        ELSE IF task = Undefined
        THEN /\ cache' = Cache_set(g.cache, TaskKey(id), Undefined, defaultTTL, now)
             /\ last' = Observe("getById", id, NotFoundError("Task not found"), Undefined, << >>, 1)
             /\ UNCHANGED <<users, tasks, tx, now, uuids, ticks, written>>
        ELSE /\ cache' = Cache_set(g.cache, TaskKey(id), task, defaultTTL, now)
             /\ written' = Written(written, TaskKey(id), task, defaultTTL, now)
             /\ last' = Observe("getById", id, NoError, task, << >>, 1)
             /\ UNCHANGED <<users, tasks, tx, now, uuids, ticks>>

\* async getById(id): Promise<Task>
getById(id) ==
    \E g \in {Cache_get(cache, TaskKey(id), now)} :
    \E task \in {Repo_findById(tasks, id)} :
        IF g.value # Null
        THEN /\ cache' = g.cache
             /\ last' = Observe("getById", id, NoError, g.value, << >>, 0)
             /\ UNCHANGED <<users, tasks, tx, now, uuids, ticks, written>>
        ELSE IF task = Undefined
        THEN /\ cache' = g.cache
             /\ last' = Observe("getById", id, NotFoundError("Task not found"), Undefined, << >>, 1)
             /\ UNCHANGED <<users, tasks, tx, now, uuids, ticks, written>>
        ELSE /\ cache' = Cache_set(g.cache, TaskKey(id), task, defaultTTL, now)
             /\ written' = Written(written, TaskKey(id), task, defaultTTL, now)
             /\ last' = Observe("getById", id, NoError, task, << >>, 1)
             /\ UNCHANGED <<users, tasks, tx, now, uuids, ticks>>

\* async getByOwner(ownerId): Promise<Task[]>; the list is returned wrapped,
\* [list |-> ...], so that an empty list differs from every other value
getByOwner(ownerId) ==
    \E g \in {Cache_get(cache, OwnerKey(ownerId), now)} :
    \E found \in {Repo_findByOwner(tasks, ownerId)} :
        IF User_findById(users, ownerId) = Undefined
        THEN /\ last' = Observe("getByOwner", ownerId, NotFoundError("Owner not found"),
                                Undefined, << >>, 0)
             /\ UNCHANGED <<users, tasks, cache, tx, now, uuids, ticks, written>>
        ELSE IF g.value # Null
        THEN /\ cache' = g.cache
             /\ last' = Observe("getByOwner", ownerId, NoError, g.value, << >>, 0)
             /\ UNCHANGED <<users, tasks, tx, now, uuids, ticks, written>>
        ELSE /\ cache' = Cache_set(g.cache, OwnerKey(ownerId), [list |-> found], defaultTTL, now)
             /\ written' = Written(written, OwnerKey(ownerId), [list |-> found], defaultTTL, now)
             /\ last' = Observe("getByOwner", ownerId, NoError, [list |-> found], << >>, 0)
             /\ UNCHANGED <<users, tasks, tx, now, uuids, ticks>>

\* faulty variant: update makes no duplicate-title check
update_check_noDuplicateCheck(ts, id, dto) ==
    IF Repo_findById(ts, id) = Undefined
    THEN NotFoundError("Task not found")
    ELSE NoError

\* update, lines 304-321: what the transactional region throws before it writes
update_check(ts, id, dto) ==
    LET existing == Repo_findById(ts, id)
    IN  IF existing = Undefined
            THEN NotFoundError("Task not found")
        ELSE IF "title" \in DOMAIN dto
                /\ Len(Repo_findByOwnerAndTitlePattern(ts, existing.ownerId,
                                                       trim(dto.title), id)) > 0
            THEN ValidationError("A task with similar title already exists for this user")
        ELSE NoError

\* faulty variant: the status is left out of the update data
update_data_noStatus(dto) ==
    Spread(Spread(IF "title" \in DOMAIN dto THEN [title |-> trim(dto.title)] ELSE << >>,
                  IF "description" \in DOMAIN dto
                  THEN [description |-> trim(dto.description)] ELSE << >>),
           Spread(Pick(dto, {"deadline"}),
                  IF Truthy(dto, "priority") THEN [priority |-> dto.priority] ELSE << >>))

\* update, lines 323-329: the update data, with trimmed strings
update_data(dto) ==
    Spread(Spread(IF "title" \in DOMAIN dto THEN [title |-> trim(dto.title)] ELSE << >>,
                  IF "description" \in DOMAIN dto
                  THEN [description |-> trim(dto.description)] ELSE << >>),
           Spread(Pick(dto, {"deadline"}),
                  Spread(IF Truthy(dto, "status") THEN [status |-> dto.status] ELSE << >>,
                         IF Truthy(dto, "priority") THEN [priority |-> dto.priority] ELSE << >>)))

\* async update(id, dto): Promise<Task>
update(id, dto) ==
    \E verr \in {update_validate(dto, now)} :
    \E berr \in {IF verr = NoError THEN update_check(tasks, id, dto) ELSE NoError} :
    \E u \in {Repo_update(tasks, id, update_data(dto))} :
    \E uerr \in {IF berr # NoError THEN berr
                 ELSE IF u.result = Undefined THEN NotFoundError("Task not found")
                 ELSE NoError} :
    \E end \in {closeTx(Tx_begin(tx), uerr)} :
        IF verr # NoError
        THEN /\ last' = Observe("update", [id |-> id, dto |-> dto], verr, Undefined, << >>, 0)
             /\ UNCHANGED <<users, tasks, cache, tx, now, uuids, ticks, written>>
        ELSE IF uerr # NoError
        THEN /\ tx' = end.tx
             /\ last' = Observe("update", [id |-> id, dto |-> dto], end.threw, Undefined,
                                end.txlog, 1)
             /\ UNCHANGED <<users, tasks, cache, now, uuids, ticks, written>>
        ELSE /\ tasks' = u.tasks
             /\ cache' = Cache_invalidate(cache, TaskKey(id))
             /\ tx' = end.tx
             /\ last' = Observe("update", [id |-> id, dto |-> dto], end.threw,
                                IF end.threw = NoError THEN u.result ELSE Undefined,
                                end.txlog, 1)
             /\ UNCHANGED <<users, now, uuids, ticks, written>>

----------------------------------------------------------------------------
(* UserService.createUser (src/src/services/UserService.ts) *)

\* bcrypt.hash(password, 10): opaque, and never the clear text
bcryptHash(password) == <<"$2b$10$", password>>

\* async createUser(dto): Promise<User>
createUser(dto) ==
    IF ~Truthy(dto, "email") \/ ~Truthy(dto, "password")
    THEN /\ last' = Observe("createUser", dto, ValidationError("Email and password are required"),
                            Undefined, << >>, 0)
         /\ UNCHANGED <<users, tasks, cache, tx, now, uuids, ticks, written>>
    ELSE /\ users' = User_save(users,
                        [id       |-> Uuid("user", Len(users) + 1),
                         email    |-> dto.email,
                         password |-> bcryptHash(dto.password),
                         role     |-> IF Truthy(dto, "role") THEN dto.role ELSE "USER"])
         /\ last' = Observe("createUser", dto, NoError, users'[Len(users')], << >>, 0)
         /\ UNCHANGED <<tasks, cache, tx, now, uuids, ticks, written>>

----------------------------------------------------------------------------
(* AuthContext (src/unnamed/part_001), TaskController and UserController   *)
(* (src/src/controllers). Every await of a handler resolves on the         *)
(* microtask queue (the stores are in memory), so a handler runs to its    *)
(* response before another request is taken up: one action per handler.    *)

\* err instanceof BaseError
IsBaseError(err) ==
    err.name \in {"NotFoundError", "UnauthorizedError", "ForbiddenError", "ValidationError"}

\* BaseError.statusCode, as the subclasses' constructors set it
statusCode(err) ==
    CASE err.name = "NotFoundError" -> 404
      [] err.name = "UnauthorizedError" -> 401
      [] err.name = "ForbiddenError" -> 403
      [] err.name = "ValidationError" -> 400

\* BaseError.code, as the subclasses' constructors set it
code(err) ==
    CASE err.name = "NotFoundError" -> "NOT_FOUND"
      [] err.name = "UnauthorizedError" -> "UNAUTHORIZED"
      [] err.name = "ForbiddenError" -> "FORBIDDEN"
      [] err.name = "ValidationError" -> "VALIDATION_ERROR"

\* req.headers[h] is truthy: the header is there (an empty header is taken as
\* a missing one)
HasHeader(req, h) == h \in DOMAIN req.headers

\* static extractFromHeaders(req): the error it throws, the context it leaves
AuthContext_extractFromHeaders(ctx, req) ==
    IF ~HasHeader(req, "x-user-id") \/ ~HasHeader(req, "x-role")
    THEN [threw |-> UnauthorizedError("Authentication required"), context |-> ctx]
    ELSE [threw |-> NoError,
          context |-> [userId |-> req.headers["x-user-id"], role |-> req.headers["x-role"]]]

\* static clear()
AuthContext_clear(ctx) == Null

\* res.status(status).json(body), kept with the endpoint and its request
Respond(endpoint, req, status, body) ==
    [endpoint |-> endpoint, req |-> req, status |-> status, body |-> body]

\* before any request
NoResponse == Respond("none", [headers |-> << >>, body |-> << >>, params |-> << >>], 0, Undefined)

\* the response of a catch block
ErrorResponse(endpoint, req, err) ==
    IF IsBaseError(err)
    THEN Respond(endpoint, req, statusCode(err), [error |-> err.message, code |-> code(err)])
    ELSE Respond(endpoint, req, 500, [error |-> "Internal error"])

\* a handler that throws before it calls a service: its catch block clears the
\* context and responds
Reject(endpoint, req, err) ==
    /\ context' = AuthContext_clear(context)
    /\ res' = ErrorResponse(endpoint, req, err)
    /\ UNCHANGED <<users, tasks, cache, tx, now, uuids, ticks, written, last>>

\* async getById(id): Promise<User> of UserService
UserService_getById(id) ==
    \E user \in {User_findById(users, id)} :
        /\ last' = Observe("UserService.getById", id,
                           IF user = Undefined THEN NotFoundError("User not found") ELSE NoError,
                           user, << >>, 0)
        /\ UNCHANGED <<users, tasks, cache, tx, now, uuids, ticks, written>>

\* UserController.register(req, res)
register(req) ==
    IF ~Truthy(req.body, "email") \/ ~Truthy(req.body, "password")
    THEN /\ res' = ErrorResponse("register", req, ValidationError("Email and password required"))
         /\ UNCHANGED <<users, tasks, cache, tx, now, uuids, ticks, written, last, context>>
    ELSE /\ createUser(Pick(req.body, {"email", "password"}))
         /\ res' = IF last'.threw = NoError
                   THEN Respond("register", req, 201, Pick(last'.ret, {"id", "email", "role"}))
                   ELSE ErrorResponse("register", req, last'.threw)
         /\ UNCHANGED context

\* UserController.getProfile(req, res)
getProfile(req) ==
    \E a \in {AuthContext_extractFromHeaders(context, req)} :
        IF a.threw # NoError
        THEN Reject("getProfile", req, a.threw)
        ELSE /\ UserService_getById(a.context.userId)
             /\ context' = AuthContext_clear(a.context)
             /\ res' = IF last'.threw = NoError
                       THEN Respond("getProfile", req, 200, Pick(last'.ret, {"id", "email", "role"}))
                       ELSE ErrorResponse("getProfile", req, last'.threw)

\* TaskController.createTask(req, res); a deadline of the body is a timestamp
createTask(req) ==
    \E a \in {AuthContext_extractFromHeaders(context, req)} :
        IF ~TruthyText(req.body, "title")
        THEN Reject("createTask", req, ValidationError("Title required"))
        ELSE IF a.threw # NoError
        THEN Reject("createTask", req, a.threw)
        ELSE /\ create(Spread(Spread(Pick(req.body, {"title", "description", "priority"}),
                                     IF "deadline" \in DOMAIN req.body
                                     THEN [deadline |-> DateOf(req.body.deadline)] ELSE << >>),
                              [ownerId |-> a.context.userId]))
             /\ context' = AuthContext_clear(a.context)
             /\ res' = IF last'.threw = NoError
                       THEN Respond("createTask", req, 201, last'.ret)
                       ELSE ErrorResponse("createTask", req, last'.threw)

\* faulty variant: the role of the caller is not looked at
deleteTask_anyRole(req) ==
    \E a \in {AuthContext_extractFromHeaders(context, req)} :
        IF a.threw # NoError
        THEN Reject("deleteTask", req, a.threw)
        ELSE /\ delete(req.params.id)
             /\ context' = AuthContext_clear(a.context)
             /\ res' = IF last'.threw = NoError
                       THEN Respond("deleteTask", req, 204, Undefined)
                       ELSE ErrorResponse("deleteTask", req, last'.threw)

\* TaskController.deleteTask(req, res)
deleteTask(req) ==
    \E a \in {AuthContext_extractFromHeaders(context, req)} :
        IF a.threw # NoError
        THEN Reject("deleteTask", req, a.threw)
        ELSE IF a.context.role # "ADMIN"
        THEN Reject("deleteTask", req, ForbiddenError("Admin role required"))
        ELSE /\ delete(req.params.id)
             /\ context' = AuthContext_clear(a.context)
             /\ res' = IF last'.threw = NoError
                       THEN Respond("deleteTask", req, 204, Undefined)
                       ELSE ErrorResponse("deleteTask", req, last'.threw)

\* TaskController.getTasksByOwner(req, res)
getTasksByOwner(req) ==
    \E a \in {AuthContext_extractFromHeaders(context, req)} :
        IF a.threw # NoError
        THEN Reject("getTasksByOwner", req, a.threw)
        ELSE /\ getByOwner(a.context.userId)
             /\ context' = AuthContext_clear(a.context)
             /\ res' = IF last'.threw = NoError
                       THEN Respond("getTasksByOwner", req, 200, last'.ret)
                       ELSE ErrorResponse("getTasksByOwner", req, last'.threw)

\* TaskController.deleteTasksByOwner(req, res)
deleteTasksByOwner(req) ==
    \E a \in {AuthContext_extractFromHeaders(context, req)} :
        IF a.threw # NoError
        THEN Reject("deleteTasksByOwner", req, a.threw)
        ELSE \E targetUserId \in {IF "userId" \in DOMAIN req.params
                                  THEN req.params.userId ELSE a.context.userId} :
             IF targetUserId # a.context.userId /\ a.context.role # "ADMIN"
             THEN Reject("deleteTasksByOwner", req,
                         ForbiddenError("You can only delete your own tasks"))
             ELSE /\ deleteByOwner(targetUserId)
                  /\ context' = AuthContext_clear(a.context)
                  /\ res' = IF last'.threw = NoError
                            THEN Respond("deleteTasksByOwner", req, 200,
                                         [deletedCount |-> last'.ret,
                                          message |-> <<"Deleted ", last'.ret, " tasks">>])
                            ELSE ErrorResponse("deleteTasksByOwner", req, last'.threw)

\* TaskController.getTask(req, res): no use of AuthContext
getTask(req) ==
    /\ getById(req.params.id)
    /\ res' = IF last'.threw = NoError
              THEN Respond("getTask", req, 200, last'.ret)
              ELSE ErrorResponse("getTask", req, last'.threw)
    /\ UNCHANGED context

\* TaskController.editTask(req, res): no use of AuthContext; a deadline of the
\* body is a timestamp
editTask(req) ==
    IF /\ ~TruthyText(req.body, "title")
       /\ ~Truthy(req.body, "description")
       /\ ~Truthy(req.body, "status")
       /\ ~Truthy(req.body, "deadline")
       /\ ~Truthy(req.body, "priority")
    THEN /\ res' = ErrorResponse("editTask", req,
                        ValidationError("At least one field (title, description, status, deadline, or priority) required"))
         /\ UNCHANGED <<users, tasks, cache, tx, now, uuids, ticks, written, last, context>>
    ELSE /\ update(req.params.id,
                   Spread(Pick(req.body, {"title", "description"}
                                   \cup {f \in {"status", "priority"} : Truthy(req.body, f)}),
                          IF Truthy(req.body, "deadline")
                          THEN [deadline |-> DateOf(req.body.deadline)] ELSE << >>))
         /\ res' = IF last'.threw = NoError
                   THEN Respond("editTask", req, 200, last'.ret)
                   ELSE ErrorResponse("editTask", req, last'.threw)
         /\ UNCHANGED context

\* TaskController.deleteMultipleTasks(req, res): no use of AuthContext; the
\* ids of a body are an array
deleteMultipleTasks(req) ==
    IF "ids" \notin DOMAIN req.body \/ Len(req.body.ids) = 0
    THEN /\ res' = ErrorResponse("deleteMultipleTasks", req,
                        ValidationError("ids must be a non-empty array"))
         /\ UNCHANGED <<users, tasks, cache, tx, now, uuids, ticks, written, last, context>>
    ELSE /\ deleteMultiple(req.body.ids)
         /\ res' = IF last'.threw = NoError
                   THEN Respond("deleteMultipleTasks", req, 200,
                                [deletedCount |-> last'.ret,
                                 message |-> <<"Deleted ", last'.ret, " tasks">>])
                   ELSE ErrorResponse("deleteMultipleTasks", req, last'.threw)
         /\ UNCHANGED context

\* a call made on a service directly, not through a controller, that runs to
\* its end with no other call in flight
Direct == UNCHANGED <<context, res, queue>>

----------------------------------------------------------------------------
(* TaskService calls that overlap. An async method runs until its next      *)
(* await; what follows the await is put at the tail of the microtask queue  *)
(* and runs, in the order of the queue, when the code that ran before it    *)
(* has yielded. The repository method of `await repo.m(...)` runs at the    *)
(* call, before the caller yields: its result is kept in the suspended call *)
(* as `awaited`. A caller may start a call between any two microtasks.      *)

\* the state a segment of TaskService code reads and writes
World == [tasks |-> tasks, cache |-> cache, tx |-> tx, uuids |-> uuids, written |-> written]

\* a segment ends at an await: the world it leaves and the suspended call
Await(w, call) == [w |-> w, suspended |-> TRUE, call |-> call, obs |-> Undefined]
\* a segment ends the call: the world it leaves and what the caller observes
Return(w, obs) == [w |-> w, suspended |-> FALSE, call |-> Undefined, obs |-> obs]

\* the end of a transactional region in world w: commit() when bodyErr is
\* NoError, else the catch block's rollback(), then return or rethrow
Close(w, op, args, bodyErr, ret) ==
    LET end == closeTx(w.tx, bodyErr)
    IN  Return([w EXCEPT !.tx = end.tx],
               Observe(op, args, end.threw,
                       IF end.threw = NoError THEN ret ELSE Undefined, end.txlog, 0))

\* create, lines 17-69: validation, begin(), userRepository.findById called
create_begin(dto, w, us, t) ==
    LET verr == create_validate(dto, t)
    IN  IF verr # NoError
        THEN Return(w, Observe("create", dto, verr, Undefined, << >>, 0))
        ELSE Await([w EXCEPT !.tx = Tx_begin(w.tx)],
                   [op |-> "create", pc |-> "owner", args |-> dto,
                    awaited |-> User_findById(us, dto.ownerId)])

\* faulty variant: the duplicate check is made again, on the store as it is
\* when the task is about to be saved
create_resume_checksAtSave(call, w, t) ==
    IF call.pc = "owner"
    THEN IF call.awaited = Undefined
         THEN Close(w, "create", call.args, NotFoundError("Owner not found"), Undefined)
         ELSE Await(w, [call EXCEPT !.pc = "similarTasks",
                        !.awaited = Repo_findByOwnerAndTitlePattern(
                                        w.tasks, call.args.ownerId,
                                        trim(call.args.title), Undefined)])
    ELSE IF call.pc = "similarTasks"
    THEN IF Len(Repo_findByOwnerAndTitlePattern(w.tasks, call.args.ownerId,
                                                trim(call.args.title), Undefined)) > 0
         THEN Close(w, "create", call.args,
                    ValidationError("A task with similar title already exists for this user"),
                    Undefined)
         ELSE LET task == create_task(call.args, Uuid("task", w.uuids + 1), t)
              IN  Await([w EXCEPT !.tasks = Repo_save(w.tasks, task), !.uuids = w.uuids + 1],
                        [call EXCEPT !.pc = "savedTask", !.awaited = task])
    ELSE Close(w, "create", call.args, NoError, call.awaited)

\* create, lines 69-96 and 98-105: the code after each await
create_resume(call, w, t) ==
    IF call.pc = "owner"
    THEN IF call.awaited = Undefined
         THEN Close(w, "create", call.args, NotFoundError("Owner not found"), Undefined)
         ELSE Await(w, [call EXCEPT !.pc = "similarTasks",
                        !.awaited = Repo_findByOwnerAndTitlePattern(
                                        w.tasks, call.args.ownerId,
                                        trim(call.args.title), Undefined)])
    ELSE IF call.pc = "similarTasks"
    THEN IF Len(call.awaited) > 0
         THEN Close(w, "create", call.args,
                    ValidationError("A task with similar title already exists for this user"),
                    Undefined)
         ELSE LET task == create_task(call.args, Uuid("task", w.uuids + 1), t)
              IN  Await([w EXCEPT !.tasks = Repo_save(w.tasks, task), !.uuids = w.uuids + 1],
                        [call EXCEPT !.pc = "savedTask", !.awaited = task])
    ELSE Close(w, "create", call.args, NoError, call.awaited)

\* update, lines 331-334: the write, called before the await of its result
update_write(call, w) ==
    LET u == Repo_update(w.tasks, call.args.id, update_data(call.args.dto))
    IN  Await([w EXCEPT !.tasks = u.tasks],
              [call EXCEPT !.pc = "updated", !.awaited = u.result])

\* update, lines 248-304: validation, begin(), taskRepository.findById called
update_begin(id, dto, w, t) ==
    LET verr == update_validate(dto, t)
        args == [id |-> id, dto |-> dto]
    IN  IF verr # NoError
        THEN Return(w, Observe("update", args, verr, Undefined, << >>, 0))
        ELSE Await([w EXCEPT !.tx = Tx_begin(w.tx)],
                   [op |-> "update", pc |-> "existing", args |-> args,
                    awaited |-> Repo_findById(w.tasks, id)])

\* update, lines 304-345: the code after each await
update_resume(call, w) ==
    IF call.pc = "existing"
    THEN IF call.awaited = Undefined
         THEN Close(w, "update", call.args, NotFoundError("Task not found"), Undefined)
         ELSE IF "title" \in DOMAIN call.args.dto
         THEN Await(w, [call EXCEPT !.pc = "similarTasks",
                        !.awaited = Repo_findByOwnerAndTitlePattern(
                                        w.tasks, call.awaited.ownerId,
                                        trim(call.args.dto.title), call.args.id)])
         ELSE update_write(call, w)
    ELSE IF call.pc = "similarTasks"
    THEN IF Len(call.awaited) > 0
         THEN Close(w, "update", call.args,
                    ValidationError("A task with similar title already exists for this user"),
                    Undefined)
         ELSE update_write(call, w)
    ELSE IF call.awaited = Undefined
         THEN Close(w, "update", call.args, NotFoundError("Task not found"), Undefined)
         ELSE Close([w EXCEPT !.cache = Cache_invalidate(w.cache, TaskKey(call.args.id))],
                    "update", call.args, NoError, call.awaited)

\* delete, lines 112-117: taskRepository.delete called
delete_begin(id, w) ==
    Await([w EXCEPT !.tasks = Repo_delete(w.tasks, id)],
          [op |-> "delete", pc |-> "deleted", args |-> id, awaited |-> Undefined])

\* delete, lines 118-123: the code after the await
delete_resume(call, w) ==
    Return([w EXCEPT !.cache = Cache_invalidate(w.cache, TaskKey(call.args))],
           Observe("delete", call.args, NoError, Undefined, << >>, 0))

\* deleteByOwner, lines 125-132: userRepository.findById called
deleteByOwner_begin(ownerId, w, us) ==
    Await(w, [op |-> "deleteByOwner", pc |-> "owner", args |-> ownerId,
              awaited |-> User_findById(us, ownerId)])

\* deleteByOwner, lines 132-157: the code after each await
deleteByOwner_resume(call, w) ==
    IF call.pc = "owner"
    THEN IF call.awaited = Undefined
         THEN Return(w, Observe("deleteByOwner", call.args, NotFoundError("Owner not found"),
                                Undefined, << >>, 0))
         ELSE LET d == Repo_deleteByOwner(w.tasks, call.args)
              IN  Await([w EXCEPT !.tx = Tx_begin(w.tx), !.tasks = d.tasks],
                        [call EXCEPT !.pc = "deletedCount", !.awaited = d.deletedCount])
    ELSE Close([w EXCEPT !.cache = Cache_clear(w.cache)],
               "deleteByOwner", call.args, NoError, call.awaited)

\* deleteMultiple, lines 159-171: validation, begin(), taskRepository.deleteMultiple called
deleteMultiple_begin(ids, w) ==
    IF Len(ids) = 0
    THEN Return(w, Observe("deleteMultiple", ids,
                           ValidationError("At least one task ID required"),
                           Undefined, << >>, 0))
    ELSE LET d == Repo_deleteMultiple(w.tasks, ids)
         IN  Await([w EXCEPT !.tx = Tx_begin(w.tx), !.tasks = d.tasks],
                   [op |-> "deleteMultiple", pc |-> "deletedCount", args |-> ids,
                    awaited |-> d.deletedCount])

\* deleteMultiple, lines 173-190: the code after the await
deleteMultiple_resume(call, w) ==
    Close([w EXCEPT !.cache = invalidateAll(w.cache, call.args)],
          "deleteMultiple", call.args, NoError, call.awaited)

\* getById, lines 192-203: the cache is asked, then taskRepository.findById called
getById_begin(id, w, t) ==
    LET g == Cache_get(w.cache, TaskKey(id), t)
    IN  IF g.value # Null
        THEN Return([w EXCEPT !.cache = g.cache],
                    Observe("getById", id, NoError, g.value, << >>, 0))
        ELSE Await([w EXCEPT !.cache = g.cache],
                   [op |-> "getById", pc |-> "task", args |-> id,
                    awaited |-> Repo_findById(w.tasks, id)])

\* getById, lines 204-215: the code after the await
getById_resume(call, w, t) ==
    IF call.awaited = Undefined
    THEN Return(w, Observe("getById", call.args, NotFoundError("Task not found"),
                           Undefined, << >>, 1))
    ELSE Return([w EXCEPT
                    !.cache = Cache_set(w.cache, TaskKey(call.args), call.awaited, defaultTTL, t),
                    !.written = Written(w.written, TaskKey(call.args), call.awaited,
                                        defaultTTL, t)],
                Observe("getById", call.args, NoError, call.awaited, << >>, 1))

\* faulty variant: the call suspended last runs first
Scheduled_lastFirst(q) == [call |-> q[Len(q)], rest |-> SubSeq(q, 1, Len(q) - 1)]

\* the microtask that runs next, the one at the head of the queue, and the
\* calls that stay suspended
Scheduled(q) == [call |-> Head(q), rest |-> Tail(q)]

\* a segment has run with outcome out; rest are the calls that stay suspended
Ran(out, rest) ==
    /\ tasks' = out.w.tasks
    /\ cache' = out.w.cache
    /\ tx' = out.w.tx
    /\ uuids' = out.w.uuids
    /\ written' = out.w.written
    /\ queue' = IF out.suspended THEN Append(rest, out.call) ELSE rest
    /\ last' = IF out.suspended THEN last ELSE out.obs
    /\ UNCHANGED <<users, now, ticks, context, res>>

\* a caller calls taskService.create(dto) while other calls may be suspended
callCreate(dto) == Ran(create_begin(dto, World, users, now), queue)
\* a caller calls taskService.update(id, dto)
callUpdate(id, dto) == Ran(update_begin(id, dto, World, now), queue)
\* a caller calls taskService.delete(id)
callDelete(id) == Ran(delete_begin(id, World), queue)
\* a caller calls taskService.deleteByOwner(ownerId)
callDeleteByOwner(ownerId) == Ran(deleteByOwner_begin(ownerId, World, users), queue)
\* a caller calls taskService.deleteMultiple(ids)
callDeleteMultiple(ids) == Ran(deleteMultiple_begin(ids, World), queue)
\* a caller calls taskService.getById(id)
callGetById(id) == Ran(getById_begin(id, World, now), queue)

\* the suspended call at the head of the microtask queue runs to its next await
\* or to its end
resume ==
    /\ queue # << >>
    /\ \E call \in {Scheduled(queue).call} :
        Ran(CASE call.op = "create" -> create_resume(call, World, now)
              [] call.op = "update" -> update_resume(call, World)
              [] call.op = "delete" -> delete_resume(call, World)
              [] call.op = "deleteByOwner" -> deleteByOwner_resume(call, World)
              [] call.op = "deleteMultiple" -> deleteMultiple_resume(call, World)
              [] call.op = "getById" -> getById_resume(call, World, now),
            Scheduled(queue).rest)

----------------------------------------------------------------------------
(* The clock *)

\* d seconds pass between two calls
Tick(d) ==
    /\ now' = now + d
    /\ ticks' = ticks + 1
    /\ UNCHANGED <<users, tasks, cache, tx, uuids, written, last>>

----------------------------------------------------------------------------
(* CacheService and TransactionManager called directly *)

\* cacheService.set(key, value, ttl)
cacheSet(key, value, ttl) ==
    /\ cache' = Cache_set(cache, key, value, ttl, now)
    /\ written' = Written(written, key, value, ttl, now)
    /\ last' = Observe("cacheSet", [key |-> key, value |-> value, ttl |-> ttl],
                       NoError, Undefined, << >>, 0)
    /\ UNCHANGED <<users, tasks, tx, now, uuids, ticks>>

\* cacheService.get(key)
cacheGet(key) ==
    \E g \in {Cache_get(cache, key, now)} :
        /\ cache' = g.cache
        /\ last' = Observe("cacheGet", key, NoError, g.value, << >>, 0)
        /\ UNCHANGED <<users, tasks, tx, now, uuids, ticks, written>>

\* cacheService.invalidate(key)
cacheInvalidate(key) ==
    /\ cache' = Cache_invalidate(cache, key)
    /\ last' = Observe("cacheInvalidate", key, NoError, Undefined, << >>, 0)
    /\ UNCHANGED <<users, tasks, tx, now, uuids, ticks, written>>

\* cacheService.clear()
cacheClear ==
    /\ cache' = Cache_clear(cache)
    /\ last' = Observe("cacheClear", Undefined, NoError, Undefined, << >>, 0)
    /\ UNCHANGED <<users, tasks, tx, now, uuids, ticks, written>>

\* transactionManager.begin(); it takes no argument: the observation keeps, as
\* args, the operations that were queued when it was called
txBegin ==
    /\ tx' = Tx_begin(tx)
    /\ last' = Observe("begin", [queued |-> tx.operations], NoError, Undefined, << >>, 0)
    /\ UNCHANGED <<users, tasks, cache, now, uuids, ticks, written>>

\* transactionManager.commit()
txCommit ==
    \E r \in {Tx_commit(tx)} :
        /\ tx' = r.tx
        /\ last' = Observe("commit", Undefined, r.threw, Undefined, << >>, 0)
        /\ UNCHANGED <<users, tasks, cache, now, uuids, ticks, written>>

\* transactionManager.rollback()
txRollback ==
    \E r \in {Tx_rollback(tx)} :
        /\ tx' = r.tx
        /\ last' = Observe("rollback", Undefined, r.threw, Undefined, << >>, 0)
        /\ UNCHANGED <<users, tasks, cache, now, uuids, ticks, written>>

\* transactionManager.addOperation(operation)
txAddOperation(operation) ==
    \E r \in {Tx_addOperation(tx, operation)} :
        /\ tx' = r.tx
        /\ last' = Observe("addOperation", operation, r.threw, Undefined, << >>, 0)
        /\ UNCHANGED <<users, tasks, cache, now, uuids, ticks, written>>

\* the step is a call of method op; last' holds its arguments and outcome
Called(op) == last'.op = op /\ ticks' = ticks

----------------------------------------------------------------------------
(* Inputs of the requests *)

\* titles the requests carry
WriteReport == <<"W","r","i","t","e"," ","r","e","p","o","r","t">>
ReportWriting == <<"r","e","p","o","r","t"," ","w","r","i","t","i","n","g">>
REPORT == <<"R","E","P","O","R","T">>
PaddedReport == <<" ","r","e","p","o","r","t"," ">>
TwoChars == <<"a","b">>
PaddedOneChar == <<" "," ","a"," ">>

\* 2026-11-06T00:00:00Z
StartTime == MakeTime(2026, 11, 6, 0)

UserIds == {Uuid("user", n) : n \in 1..MaxUsers}
TaskIds == {Uuid("task", n) : n \in 1..MaxTasks}
\* the id arrays of deleteMultiple: empty, single, with an absent or repeated id
IdLists == {<< >>} \cup {<<a>> : a \in TaskIds} \cup {<<a, b>> : a, b \in TaskIds}

UserInputs ==
    {[email |-> "a@example.com", password |-> "secret"],
     [email |-> "", password |-> "secret"]}

\* the model's bounds on the stores and the clock: at most MaxUsers users are
\* registered, MaxTasks task identifiers generated, MaxTicks clock advances
Bounded == Len(users') <= MaxUsers /\ uuids' <= MaxTasks /\ ticks' <= MaxTicks

Init ==
    /\ users = << >>
    /\ tasks = << >>
    /\ cache = << >>
    /\ tx = [isActive |-> FALSE, operations |-> << >>]
    /\ now = StartTime
    /\ uuids = 0
    /\ ticks = 0
    /\ written = << >>
    /\ last = Observe("none", Undefined, NoError, Undefined, << >>, 0)
    /\ context = Null
    /\ res = NoResponse
    /\ queue = << >>

----------------------------------------------------------------------------
(* Spec: the operations that write the Task Store, one request at a time   *)
(* (every call runs to completion before the next starts, spec section 5)  *)

CreateTitles == {WriteReport, ReportWriting, REPORT, TwoChars}
CreateInputs == {[title |-> t, ownerId |-> o] : t \in CreateTitles, o \in UserIds}
UpdateInputs == {[title |-> t] : t \in {PaddedReport, TwoChars}}

Next ==
    \/ \E dto \in UserInputs : createUser(dto) /\ Bounded /\ Direct
    \/ \E dto \in CreateInputs : create(dto) /\ Bounded /\ Direct
    \/ \E id \in TaskIds, dto \in UpdateInputs : update(id, dto) /\ Direct
    \/ \E id \in TaskIds : delete(id) /\ Direct
    \/ \E o \in UserIds : deleteByOwner(o) /\ Direct
    \/ \E ids \in IdLists : deleteMultiple(ids) /\ Direct

Spec == Init /\ [][Next]_vars

----------------------------------------------------------------------------
(* Claims about the duplicate-title check *)

\* the tasks of one owner, in store order
TasksOf(o) == SelectSeq(tasks, LAMBDA t : t.ownerId = o)
\* the owner has a task with exactly this title
HasTitle(o, title) == \E i \in 1..Len(tasks) : tasks[i].ownerId = o /\ tasks[i].title = title
\* title a contains title b, ignoring case and surrounding white space
Overlaps(a, b) == includes(toLowerCase(trim(a)), toLowerCase(trim(b)))
DuplicateTitle == ValidationError("A task with similar title already exists for this user")

\* C1: in every reachable state no two distinct tasks of the same owner have
\* trimmed titles of which one contains the other as a case-insensitive
\* substring, in either direction.
C1_NoOverlappingTitles ==
    \A i, j \in 1..Len(tasks) :
        (i # j /\ tasks[i].ownerId = tasks[j].ownerId)
            => ~Overlaps(tasks[i].title, tasks[j].title)

\* C2 as claimed: when owner U has a task titled "Write report", create with
\* title "report writing" for U fails with a Validation error and stores no
\* second task.
C2_SharedSubstringRejected ==
    [][\A o \in UserIds :
        (/\ HasTitle(o, WriteReport)
         /\ Called("create")
         /\ last'.args = [title |-> ReportWriting, ownerId |-> o])
            => (last'.threw.name = "ValidationError" /\ tasks' = tasks)]_vars

\* C2 as amended: when owner U has a task titled "Write report", create with
\* title "REPORT" (ignoring case, a substring of the stored title) for U fails
\* with the duplicate-title Validation error and stores no second task; create
\* with title "report writing", which shares a substring with the stored
\* title but is not contained in it, succeeds and is stored when "Write
\* report" is the owner's only task.
C2_ContainedTitleRejected ==
    [][\A o \in UserIds :
        /\ (/\ HasTitle(o, WriteReport)
            /\ Called("create")
            /\ last'.args = [title |-> REPORT, ownerId |-> o])
              => (last'.threw = DuplicateTitle /\ tasks' = tasks)
        /\ (/\ Len(TasksOf(o)) = 1
            /\ HasTitle(o, WriteReport)
            /\ Called("create")
            /\ last'.args = [title |-> ReportWriting, ownerId |-> o])
              => /\ last'.threw = NoError
                 /\ Len(tasks') = Len(tasks) + 1
                 /\ tasks'[Len(tasks')].title = ReportWriting
                 /\ tasks'[Len(tasks')].ownerId = o
                 /\ SubSeq(tasks', 1, Len(tasks)) = tasks]_vars

\* C2 witness: "report writing" was just stored for an owner who already had
\* "Write report"
C2_Witness ==
    /\ last.op = "create"
    /\ last.threw = NoError
    /\ last.ret.title = ReportWriting
    /\ HasTitle(last.ret.ownerId, WriteReport)

----------------------------------------------------------------------------
(* Claims about create with an unknown owner, and about deleteMultiple *)

UnknownOwner(o) == \A i \in 1..Len(users) : users[i].id # o
StoredIds == {tasks[i].id : i \in 1..Len(tasks)}
IdsOf(ids) == {ids[k] : k \in 1..Len(ids)}

\* C4 as claimed: every create call whose ownerId is no user's identifier
\* fails with NotFound, leaves the Task Store as it was, and its transaction is
\* rolled back (inactive) when the call returns.
C4_UnknownOwnerAlwaysNotFound ==
    [][(Called("create") /\ UnknownOwner(last'.args.ownerId))
            => /\ last'.threw.name = "NotFoundError"
               /\ tasks' = tasks
               /\ last'.txlog = <<"begin", "rollback">>
               /\ ~tx'.isActive]_vars

\* C4 as amended: every create call that passes the input validation (title,
\* description, deadline, priority) and whose ownerId is no user's identifier
\* fails with NotFound, leaves the Task Store as it was, and the transaction
\* it opened is rolled back (inactive) when the call returns.
C4_ValidDtoUnknownOwnerNotFound ==
    [][(/\ Called("create")
        /\ UnknownOwner(last'.args.ownerId)
        /\ create_validate(last'.args, now) = NoError)
            => /\ last'.threw = NotFoundError("Owner not found")
               /\ tasks' = tasks
               /\ last'.txlog = <<"begin", "rollback">>
               /\ ~tx'.isActive]_vars

\* C4 witness: a create for an unknown owner has just failed with NotFound
\* while the store holds a task
C4_Witness ==
    /\ last.op = "create"
    /\ UnknownOwner(last.args.ownerId)
    /\ last.threw = NotFoundError("Owner not found")
    /\ last.txlog = <<"begin", "rollback">>
    /\ Len(tasks) > 0

\* C6: deleteMultiple([]) fails with a Validation error and changes nothing;
\* for non-empty ids it removes exactly the stored tasks whose identifier
\* occurs in ids, leaves every other task as it was (and in place), and
\* returns the number of tasks removed: absent or repeated identifiers do not
\* count.
C6_DeleteMultiple ==
    [][Called("deleteMultiple") =>
        LET ids == last'.args IN
            IF ids = << >>
            THEN /\ last'.threw.name = "ValidationError"
                 /\ UNCHANGED <<users, tasks, cache, tx>>
            ELSE /\ last'.threw = NoError
                 /\ {tasks'[i] : i \in 1..Len(tasks')}
                      = {tasks[i] : i \in 1..Len(tasks)} \ {t \in {tasks[i] : i \in 1..Len(tasks)} : t.id \in IdsOf(ids)}
                 /\ Len(tasks') = Cardinality(StoredIds \ IdsOf(ids))
                 /\ \A i, j \in 1..Len(tasks') :
                        i < j => \E a, b \in 1..Len(tasks) :
                                    a < b /\ tasks[a] = tasks'[i] /\ tasks[b] = tasks'[j]
                 /\ last'.ret = Cardinality(StoredIds \cap IdsOf(ids))]_vars

\* C6 witness: deleteMultiple([id1, id2]) with id1 stored and id2 absent has
\* just returned 1
C6_Witness ==
    /\ last.op = "deleteMultiple"
    /\ Len(last.args) = 2
    /\ last.args[1] # last.args[2]
    /\ last.threw = NoError
    /\ last.ret = 1
    /\ uuids = 1

----------------------------------------------------------------------------
(* SpecTitle: create with titles at the length limits *)

MinTitleLength == 3
MaxTitleLength == 100

Abc == <<"a","b","c">>
\* 100 characters, and 101
Title100 == Repeat("x", MaxTitleLength)
Title101 == Repeat("x", MaxTitleLength + 1)
\* 98 characters between two spaces (100 raw), and 99 between two (101 raw)
Padded100 == <<" ">> \o Repeat("y", MaxTitleLength - 2) \o <<" ">>
Padded101 == <<" ">> \o Repeat("y", MaxTitleLength - 1) \o <<" ">>

LengthTitles == {<< >>, PaddedOneChar, Abc, Title100, Title101, Padded100, Padded101}
TitleInputs ==
    {[title |-> t, ownerId |-> o] : t \in LengthTitles, o \in UserIds}
    \cup {[title |-> Abc, priority |-> "URGENT", ownerId |-> o] : o \in UserIds}

NextTitle ==
    \/ \E dto \in UserInputs : createUser(dto) /\ Bounded /\ Direct
    \/ \E dto \in TitleInputs : create(dto) /\ Bounded /\ Direct

SpecTitle == Init /\ [][NextTitle]_vars

\* the task store rejects the title as a duplicate for this owner
IsDuplicate(dto) ==
    \E i \in 1..Len(tasks) :
        tasks[i].ownerId = dto.ownerId /\ Overlaps(tasks[i].title, dto.title)

\* a create that succeeded: it returned the task it appended to the store
Stored(dto) ==
    /\ last'.threw = NoError
    /\ tasks' = Append(tasks, last'.ret)
    /\ last'.ret.title = trim(dto.title)
    /\ last'.ret.ownerId = dto.ownerId

\* a create that failed validation: no transaction, store as it was
RejectedUnopened ==
    /\ last'.threw.name = "ValidationError"
    /\ last'.txlog = << >>
    /\ tx' = tx
    /\ tasks' = tasks

\* C3 as claimed: for every create call with an existing owner and no
\* duplicate title, a trimmed title shorter than 3 fails with a Validation
\* error, a raw title longer than 100 fails with a Validation error, both
\* without opening a transaction or changing the Task Store, and any other
\* title (trimmed length >= 3, raw length <= 100) succeeds and is stored.
C3_TitleLengthDecides ==
    [][LET dto == last'.args IN
        (Called("create") /\ ~UnknownOwner(dto.ownerId) /\ ~IsDuplicate(dto))
            => IF Len(trim(dto.title)) < MinTitleLength \/ Len(dto.title) > MaxTitleLength
               THEN RejectedUnopened
               ELSE Stored(dto)]_vars

\* the fields of a create dto other than the title pass validation
OtherFieldsValid(dto) ==
    create_validate(Spread(dto, [title |-> Abc]), now) = NoError

\* C3 as amended: for every create call with an existing owner, no duplicate
\* title and otherwise valid fields (description, deadline, priority), a
\* trimmed title shorter than 3 fails with a Validation error, a raw title
\* longer than 100 fails with a Validation error, both without opening a
\* transaction or changing the Task Store, and any other title succeeds and
\* is stored.
C3_TitleLengthDecidesValidDto ==
    [][LET dto == last'.args IN
        (Called("create") /\ ~UnknownOwner(dto.ownerId) /\ ~IsDuplicate(dto)
            /\ OtherFieldsValid(dto))
            => IF Len(trim(dto.title)) < MinTitleLength \/ Len(dto.title) > MaxTitleLength
               THEN RejectedUnopened
               ELSE Stored(dto)]_vars

\* C3 witness: a 100-character title is stored, and a create whose raw title
\* has 101 characters but whose trimmed title has 99 has just been rejected
C3_Witness ==
    /\ \E i \in 1..Len(tasks) : Len(tasks[i].title) = MaxTitleLength
    /\ last.op = "create"
    /\ last.args.title = Padded101
    /\ ~UnknownOwner(last.args.ownerId)
    /\ last.threw = ValidationError("Title must not exceed 100 characters")
    /\ last.txlog = << >>

----------------------------------------------------------------------------
(* SpecRead: reads through the cache, between writes and clock advances *)

ReadInputs == {[title |-> WriteReport, ownerId |-> o] : o \in UserIds}
\* the clock advances by the cache's whole time to live: an entry is read at
\* the last instant of its life, and then after it
ReadTicks == {defaultTTL}

NextRead ==
    \/ createUser([email |-> "a@example.com", password |-> "secret"]) /\ Bounded /\ Direct
    \/ \E dto \in ReadInputs : create(dto) /\ Bounded /\ Direct
    \/ \E o \in UserIds : deleteByOwner(o) /\ Direct
    \/ \E id \in TaskIds : getById(id) /\ Direct
    \/ \E d \in ReadTicks : Tick(d) /\ Bounded /\ Direct

SpecRead == Init /\ [][NextRead]_vars

\* C5: when getById(id) succeeded by reading the Task Store and caching the
\* task, and the next call is getById(id) again, no later than the time to
\* live after the first (the clock may have advanced in between, no other
\* operation ran), the second call returns the same value as the first and
\* makes no TaskRepository.findById call; the Task Store is as it was.
C5_SecondReadFromCache ==
    [][(/\ last.op = "getById"
        /\ last.threw = NoError
        /\ last.reads = 1
        /\ Called("getById")
        /\ last'.args = last.args
        /\ now <= written[TaskKey(last.args)].at + defaultTTL)
            => /\ last'.threw = NoError
               /\ last'.ret = last.ret
               /\ last'.reads = 0
               /\ tasks' = tasks]_vars

\* C5 witness: the second of two successive getById calls on one identifier has
\* returned the task from the cache at the last instant of the entry's life
C5_Witness ==
    /\ last.op = "getById"
    /\ last.threw = NoError
    /\ last.reads = 0
    /\ TaskKey(last.args) \in DOMAIN written
    /\ last.ret = written[TaskKey(last.args)].value
    /\ now = written[TaskKey(last.args)].at + defaultTTL

\* the stored task with identifier id whose owner is not o, if any
StoredForOther(id, o) ==
    {t \in {tasks[i] : i \in 1..Len(tasks)} : t.id = id /\ t.ownerId # o}

\* C7: a successful deleteByOwner(A) leaves the cache without any entry, and
\* the getById(B) that follows it for a stored task B of another owner reads B
\* from the Task Store again and caches it again, whether or not B was cached
\* before.
C7_DeleteByOwnerClearsCache ==
    [][/\ (Called("deleteByOwner") /\ last'.threw = NoError) => cache' = << >>
       /\ (/\ last.op = "deleteByOwner"
           /\ last.threw = NoError
           /\ Called("getById")
           /\ StoredForOther(last'.args, last.args) # {})
            => /\ last'.threw = NoError
               /\ last'.reads = 1
               /\ {last'.ret} = StoredForOther(last'.args, last.args)
               /\ DOMAIN cache' = {TaskKey(last'.args)}
               /\ cache'[TaskKey(last'.args)].data = last'.ret]_vars

\* C7 witness: deleteByOwner(A) has just succeeded, the cache is empty, and a
\* task B of another owner that is still stored was cached by a getById(B)
\* whose entry would not have expired yet
C7_Witness ==
    /\ last.op = "deleteByOwner"
    /\ last.threw = NoError
    /\ last.ret = 1
    /\ cache = << >>
    /\ \E i \in 1..Len(tasks) :
        /\ tasks[i].ownerId # last.args
        /\ TaskKey(tasks[i].id) \in DOMAIN written
        /\ written[TaskKey(tasks[i].id)].value = tasks[i]
        /\ now <= written[TaskKey(tasks[i].id)].at + defaultTTL

----------------------------------------------------------------------------
(* SpecDeadline: create and update with deadlines around the limits *)

\* 2028-02-29T00:00:00Z: five years later is 2033-03-01
LeapDay == MakeTime(2028, 2, 29, 0)
StartTimes == {StartTime, LeapDay}

\* the deadlines a request made at time t carries: a second before t, t, a
\* second after, five calendar years after, a second more, and an unparsable one
DeadlinesAt(t) ==
    {DateOf(t - 1), DateOf(t), DateOf(t + 1),
     DateOf(addYears(t, 5)), DateOf(addYears(t, 5) + 1), InvalidDate}

InitDeadline ==
    /\ users = << >>
    /\ tasks = << >>
    /\ cache = << >>
    /\ tx = [isActive |-> FALSE, operations |-> << >>]
    /\ now \in StartTimes
    /\ uuids = 0
    /\ ticks = 0
    /\ written = << >>
    /\ last = Observe("none", Undefined, NoError, Undefined, << >>, 0)
    /\ context = Null
    /\ res = NoResponse
    /\ queue = << >>

NextDeadline ==
    \/ createUser([email |-> "a@example.com", password |-> "secret"]) /\ Bounded /\ Direct
    \/ \E o \in UserIds, dl \in DeadlinesAt(now) :
          create([title |-> Abc, ownerId |-> o, deadline |-> dl]) /\ Bounded /\ Direct
    \/ \E id \in TaskIds, dl \in DeadlinesAt(now) : update(id, [deadline |-> dl]) /\ Direct

SpecDeadline == InitDeadline /\ [][NextDeadline]_vars

\* the dto of the create or update call the step makes
CallDto == IF last'.op = "update" THEN last'.args.dto ELSE last'.args

\* the step is a create or update call that carries the deadline d and whose
\* other fields pass the validation
DeadlineCall(d) ==
    /\ Called("create") \/ Called("update")
    /\ "deadline" \in DOMAIN CallDto
    /\ CallDto.deadline = DateOf(d)
    /\ IF last'.op = "update"
       THEN update_validate(Pick(CallDto, DOMAIN CallDto \ {"deadline"}), now) = NoError
       ELSE create_validate(Pick(CallDto, DOMAIN CallDto \ {"deadline"}), now) = NoError

\* the call failed validation: no transaction, Task Store as it was
DeadlineRejected ==
    /\ last'.threw.name = "ValidationError"
    /\ last'.txlog = << >>
    /\ tasks' = tasks

\* the call passed validation and opened its transaction; a call that then
\* succeeded returned a task with the deadline
DeadlineAccepted ==
    /\ last'.txlog # << >>
    /\ last'.threw = NoError => last'.ret.deadline = CallDto.deadline

\* C8 as claimed: with 'now' the instant at which create or update validates,
\* a deadline equal to now is rejected with a Validation error, a deadline of
\* now + 1 second is accepted, and a deadline of now + 5 (calendar) years + 1
\* second is rejected with a Validation error.
C8_DeadlineNowRejected ==
    [][/\ DeadlineCall(now) => DeadlineRejected
       /\ DeadlineCall(now + 1) => DeadlineAccepted
       /\ DeadlineCall(addYears(now, 5) + 1) => DeadlineRejected]_vars

\* C8 as amended: with 'now' the instant at which create or update validates,
\* a deadline equal to now is accepted (only a deadline earlier than now is
\* rejected as past: now - 1 second fails with a Validation error), a deadline
\* of now + 1 second is accepted, and a deadline of now + 5 (calendar) years
\* + 1 second is rejected with a Validation error.
C8_DeadlineNowAccepted ==
    [][/\ DeadlineCall(now) => DeadlineAccepted
       /\ DeadlineCall(now - 1) => DeadlineRejected
       /\ DeadlineCall(now + 1) => DeadlineAccepted
       /\ DeadlineCall(addYears(now, 5) + 1) => DeadlineRejected]_vars

\* C8 witness: a task created with a deadline equal to the time of the call
\* is stored, and an update has just been refused a deadline one second past
\* five years
C8_Witness ==
    /\ last.op = "update"
    /\ last.args.dto.deadline = DateOf(addYears(now, 5) + 1)
    /\ last.threw = ValidationError("Deadline cannot be more than 5 years in the future")
    /\ \E i \in 1..Len(tasks) : tasks[i].deadline = tasks[i].createdAt

----------------------------------------------------------------------------
(* SpecCache: the CacheService called directly, while the clock advances *)

CacheKeys == {"k1", "k2"}
CacheValues == {[v |-> 1], [v |-> 2]}
\* an entry that expires as soon as the clock moves, and the default
CacheTtls == {0, defaultTTL}

NextCache ==
    \/ \E k \in CacheKeys, v \in CacheValues, ttl \in CacheTtls : cacheSet(k, v, ttl) /\ Direct
    \/ \E k \in CacheKeys : cacheGet(k) /\ Direct
    \/ \E k \in CacheKeys : cacheInvalidate(k) /\ Direct
    \/ cacheClear /\ Direct
    \/ Tick(defaultTTL) /\ Bounded /\ Direct

SpecCache == Init /\ [][NextCache]_vars

\* an entry for key is present and the current time is not later than the
\* time of the last set(key, value, ttl) plus its ttl
Live(key) == key \in DOMAIN cache /\ now <= written[key].at + written[key].ttl

\* C9: get(key) returns the value last stored by set(key, value, ttl) if an
\* entry for key is present and not expired (the current time is not later
\* than the time of that set plus ttl), and otherwise returns null; an expired
\* entry it finds is removed; the entries of all other keys are left as they
\* were, and so is a live entry of key.
C9_CacheGet ==
    [][Called("cacheGet") =>
        LET key == last'.args IN
            /\ last'.threw = NoError
            /\ IF Live(key)
               THEN last'.ret = written[key].value /\ cache' = cache
               ELSE last'.ret = Null /\ key \notin DOMAIN cache'
            /\ \A k \in (DOMAIN cache) \ {key} : k \in DOMAIN cache' /\ cache'[k] = cache[k]
            /\ DOMAIN cache' \subseteq DOMAIN cache]_vars

\* C9 witness: get(key) has just returned null for a key whose entry had
\* expired and is gone, while the other key's entry, set twice, is still there
\* with its last value
C9_Witness ==
    /\ last.op = "cacheGet"
    /\ last.ret = Null
    /\ last.args \in DOMAIN written
    /\ now > written[last.args].at + written[last.args].ttl
    /\ last.args \notin DOMAIN cache
    /\ \E k \in DOMAIN cache : k # last.args /\ cache[k].data = written[k].value

----------------------------------------------------------------------------
(* SpecTx: the TransactionManager called directly, by callers that share it *)
(* with the TaskService                                                     *)

\* the zero-argument actions a caller queues
Operations == {"op1", "op2", "op3"}

NextTx ==
    \/ createUser([email |-> "a@example.com", password |-> "secret"]) /\ Bounded /\ Direct
    \/ \E o \in UserIds : create([title |-> Abc, ownerId |-> o]) /\ Bounded /\ Direct
    \/ \E id \in TaskIds : deleteMultiple(<<id>>) /\ Direct
    \/ txBegin /\ Direct
    \/ txCommit /\ Direct
    \/ txRollback /\ Direct
    \/ \E operation \in Operations :
          txAddOperation(operation) /\ Len(tx'.operations) <= MaxQueue /\ Direct

SpecTx == Init /\ [][NextTx]_vars

InvalidState == {Error("No active transaction"),
                 Error("No active transaction to commit"),
                 Error("No active transaction to rollback")}
Closed == [isActive |-> FALSE, operations |-> << >>]

\* C10: addOperation, commit and rollback each fail with an invalid-state
\* error when the transaction is not active, leaving the active flag and the
\* queue as they were; on an active transaction commit and rollback each
\* succeed and leave it inactive with an empty queue; so a commit or rollback
\* that follows a commit or rollback (or a failed addOperation after one)
\* fails.
C10_TransactionStates ==
    [][/\ (/\ Called("addOperation") \/ Called("commit") \/ Called("rollback")
           /\ ~tx.isActive)
            => (last'.threw \in InvalidState /\ tx' = tx)
       /\ (/\ Called("commit") \/ Called("rollback")
           /\ tx.isActive)
            => (last'.threw = NoError /\ tx' = Closed)
       /\ (/\ Called("commit") \/ Called("rollback")
           /\ \/ last.op \in {"commit", "rollback"}
              \/ last.op = "addOperation" /\ last.threw # NoError)
            => (last'.threw \in InvalidState /\ tx' = tx)]_vars

\* C10 witness: a rollback has just failed on the inactive transaction, which
\* is as a commit or rollback left it
C10_Witness ==
    /\ last.op = "rollback"
    /\ last.threw = Error("No active transaction to rollback")
    /\ tx = Closed

\* C11: begin() never fails: called in any state, also on an active
\* transaction with queued operations, it leaves the transaction active with
\* an empty queue; the operations queued before it are gone, and none was run.
C11_BeginResets ==
    [][Called("begin") =>
        /\ last'.threw = NoError
        /\ tx' = [isActive |-> TRUE, operations |-> << >>]
        /\ UNCHANGED <<users, tasks, cache>>]_vars

\* C11 witness: begin() has just been called on an active transaction that had
\* MaxQueue operations queued, and the queue is empty
C11_Witness ==
    /\ last.op = "begin"
    /\ last.threw = NoError
    /\ Len(last.args.queued) = MaxQueue
    /\ tx = [isActive |-> TRUE, operations |-> << >>]

----------------------------------------------------------------------------
(* SpecEdit: updates of the titles of tasks *)

EditCreates == {[title |-> t, ownerId |-> o] : t \in {WriteReport, ReportWriting}, o \in UserIds}
\* a new title that is a substring of both created titles, and one of them
EditUpdates == {[title |-> REPORT], [title |-> WriteReport]}

NextEdit ==
    \/ createUser([email |-> "a@example.com", password |-> "secret"]) /\ Bounded /\ Direct
    \/ \E dto \in EditCreates : create(dto) /\ Bounded /\ Direct
    \/ \E id \in TaskIds, dto \in EditUpdates : update(id, dto) /\ Direct

SpecEdit == Init /\ [][NextEdit]_vars

\* another task of the owner of task i has a title that contains title,
\* ignoring case
OtherContains(i, title) ==
    \E j \in 1..Len(tasks) :
        /\ j # i
        /\ tasks[j].ownerId = tasks[i].ownerId
        /\ includes(toLowerCase(tasks[j].title), toLowerCase(title))

\* C13: update(id, dto) with a title of valid length on a stored task leaves
\* that task out of the duplicate check: it fails with the duplicate-title
\* Validation error, the store unchanged, when another task of the same owner
\* has a title containing the new (trimmed) title, and otherwise succeeds and
\* stores the new title; so a task's title can be set to its own current title
\* or to a substring of it.
C13_UpdateExcludesItself ==
    [][\A i \in 1..Len(tasks) :
        (/\ Called("update")
         /\ last'.args.id = tasks[i].id
         /\ "title" \in DOMAIN last'.args.dto
         /\ Len(trim(last'.args.dto.title)) >= MinTitleLength
         /\ Len(last'.args.dto.title) <= MaxTitleLength)
            => IF OtherContains(i, trim(last'.args.dto.title))
               THEN last'.threw = DuplicateTitle /\ tasks' = tasks
               ELSE /\ last'.threw = NoError
                    /\ tasks' = [tasks EXCEPT ![i].title = trim(last'.args.dto.title)]
                    /\ last'.ret = tasks'[i]]_vars

\* C13 witness: an update has just set the title of a task to "REPORT", which
\* the title of another owner's task contains
C13_Witness ==
    /\ last.op = "update"
    /\ last.threw = NoError
    /\ last.ret.title = REPORT
    /\ \E j \in 1..Len(tasks) :
        /\ tasks[j].ownerId # last.ret.ownerId
        /\ includes(toLowerCase(tasks[j].title), toLowerCase(REPORT))

----------------------------------------------------------------------------
(* SpecRefresh: updates of tasks that are read through the cache *)

RefreshUpdates == {[title |-> PaddedReport, status |-> "DONE"]}

NextRefresh ==
    \/ createUser([email |-> "a@example.com", password |-> "secret"]) /\ Bounded /\ Direct
    \/ \E dto \in ReadInputs : create(dto) /\ Bounded /\ Direct
    \/ \E id \in TaskIds, dto \in RefreshUpdates : update(id, dto) /\ Direct
    \/ \E id \in TaskIds : getById(id) /\ Direct

SpecRefresh == Init /\ [][NextRefresh]_vars

----------------------------------------------------------------------------
(* SpecDelete: deletions of tasks that are read through the cache *)

NextDelete ==
    \/ createUser([email |-> "a@example.com", password |-> "secret"]) /\ Bounded /\ Direct
    \/ \E dto \in EditCreates : create(dto) /\ Bounded /\ Direct
    \/ \E id \in TaskIds : delete(id) /\ Direct
    \/ \E o \in UserIds : deleteByOwner(o) /\ Direct
    \/ \E id \in TaskIds : getById(id) /\ Direct

SpecDelete == Init /\ [][NextDelete]_vars

\* the entries of the cache other than the one of key are as they were, and
\* the one of key is gone
OnlyDropped(key) ==
    /\ DOMAIN cache' = (DOMAIN cache) \ {key}
    /\ \A k \in DOMAIN cache' : cache'[k] = cache[k]

\* C14: delete(id) raises no error and opens no transaction; for an id that
\* is not stored it leaves the Task Store as it was, for a stored id it
\* removes exactly that task; in both cases the cache loses the entry
\* task:<id>, if it had one, and keeps every other entry as it was.
C14_DeleteFrame ==
    [][Called("delete") =>
        /\ last'.threw = NoError
        /\ last'.txlog = << >>
        /\ tx' = tx
        /\ IF last'.args \in StoredIds
           THEN /\ Len(tasks') = Len(tasks) - 1
                /\ \E i \in 1..Len(tasks) :
                     /\ tasks[i].id = last'.args
                     /\ tasks' = SubSeq(tasks, 1, i - 1) \o SubSeq(tasks, i + 1, Len(tasks))
           ELSE tasks' = tasks
        /\ OnlyDropped(TaskKey(last'.args))]_vars

\* C14 witness: delete(id) has just removed a stored task that was cached;
\* another task is still stored and still cached
C14_Witness ==
    /\ last.op = "delete"
    /\ last.args \notin StoredIds
    /\ TaskKey(last.args) \in DOMAIN written
    /\ TaskKey(last.args) \notin DOMAIN cache
    /\ \E i \in 1..Len(tasks) : TaskKey(tasks[i].id) \in DOMAIN cache

\* C15: a successful deleteByOwner(ownerId) removes every task whose owner is
\* ownerId and no other task, the others staying as they were and in place,
\* and returns the number of tasks the owner had; for an ownerId that is no
\* user's identifier it fails with NotFound, opens no transaction and leaves
\* the Task Store and the cache as they were.
C15_DeleteByOwnerFrame ==
    [][Called("deleteByOwner") =>
        IF UnknownOwner(last'.args)
        THEN /\ last'.threw = NotFoundError("Owner not found")
             /\ last'.txlog = << >>
             /\ UNCHANGED <<tasks, cache, tx>>
        ELSE /\ last'.threw = NoError
             /\ tasks' = SelectSeq(tasks, LAMBDA t : t.ownerId # last'.args)
             /\ last'.ret = Cardinality({i \in 1..Len(tasks) : tasks[i].ownerId = last'.args})]_vars

\* C15 witness: deleteByOwner has just removed the two tasks of an owner
C15_Witness ==
    /\ last.op = "deleteByOwner"
    /\ last.threw = NoError
    /\ last.ret = 2
    /\ \A i \in 1..Len(tasks) : tasks[i].ownerId # last.args

\* C16: getById(id) for an id that is neither cached nor stored fails with
\* NotFound and leaves the cache (and the Task Store) as it was; getById(id)
\* for an id that is stored and not cached, as after that failure and the
\* creation of the task, reads the task from the Task Store and returns it.
C16_NoNegativeCaching ==
    [][/\ (/\ Called("getById")
           /\ TaskKey(last'.args) \notin DOMAIN cache
           /\ last'.args \notin StoredIds)
            => /\ last'.threw = NotFoundError("Task not found")
               /\ cache' = cache
               /\ tasks' = tasks
       /\ (/\ Called("getById")
           /\ TaskKey(last'.args) \notin DOMAIN cache
           /\ last'.args \in StoredIds)
            => /\ last'.threw = NoError
               /\ last'.reads = 1
               /\ last'.ret = Repo_findById(tasks, last'.args)]_vars

\* C16 witness: getById has just failed with NotFound for an identifier that
\* is not stored, and the cache holds the entry of another task only
C16_Witness ==
    /\ last.op = "getById"
    /\ last.threw = NotFoundError("Task not found")
    /\ cache # << >>
    /\ TaskKey(last.args) \notin DOMAIN cache

\* C12: a successful update(id, dto) leaves the cache without an entry for
\* task:<id>, whether or not there was one, and returns the stored record with
\* the updated (trimmed) fields; the getById(id) that follows it reads the
\* Task Store and returns that record.
C12_UpdateInvalidates ==
    [][/\ (Called("update") /\ last'.threw = NoError)
            => /\ TaskKey(last'.args.id) \notin DOMAIN cache'
               /\ last'.ret = Repo_findById(tasks', last'.args.id)
               /\ last'.ret.title = trim(last'.args.dto.title)
               /\ last'.ret.status = last'.args.dto.status
       /\ (/\ last.op = "update"
           /\ last.threw = NoError
           /\ Called("getById")
           /\ last'.args = last.args.id)
            => /\ last'.threw = NoError
               /\ last'.reads = 1
               /\ last'.ret = last.ret
               /\ last'.ret = Repo_findById(tasks, last'.args)]_vars

\* C12 witness: an update has just succeeded on a task that an earlier getById
\* had cached with its old fields, and the cache has no entry for it
C12_Witness ==
    /\ last.op = "update"
    /\ last.threw = NoError
    /\ last.ret.status = "DONE"
    /\ TaskKey(last.args.id) \in DOMAIN written
    /\ written[TaskKey(last.args.id)].value.status = "TODO"
    /\ TaskKey(last.args.id) \notin DOMAIN cache

----------------------------------------------------------------------------
(* SpecStatus: updates of the status of tasks *)

Statuses == {"TODO", "IN_PROGRESS", "DONE", "CANCELLED"}
Priorities == {"LOW", "MEDIUM", "HIGH"}
StatusUpdates == {[status |-> st] : st \in Statuses \cup {"ARCHIVED"}}

NextStatus ==
    \/ createUser([email |-> "a@example.com", password |-> "secret"]) /\ Bounded /\ Direct
    \/ \E o \in UserIds : create([title |-> Abc, ownerId |-> o]) /\ Bounded /\ Direct
    \/ \E id \in TaskIds, dto \in StatusUpdates : update(id, dto) /\ Direct

SpecStatus == Init /\ [][NextStatus]_vars

\* C17: status transitions are not enforced: an update that gives only a
\* status of {TODO, IN_PROGRESS, DONE, CANCELLED} to a stored task succeeds
\* whatever the task's status is, and the task then has that status, its other
\* fields unchanged; an update that gives a status outside that set fails with
\* a Validation error and leaves the Task Store as it was.
C17_AnyStatusTransition ==
    [][\A i \in 1..Len(tasks) :
        (/\ Called("update")
         /\ last'.args.id = tasks[i].id
         /\ DOMAIN last'.args.dto = {"status"})
            => IF last'.args.dto.status \in Statuses
               THEN /\ last'.threw = NoError
                    /\ tasks' = [tasks EXCEPT ![i].status = last'.args.dto.status]
                    /\ last'.ret = tasks'[i]
               ELSE /\ last'.threw.name = "ValidationError"
                    /\ tasks' = tasks]_vars

\* C17 witness: an update has just set a task back to TODO while another task
\* is CANCELLED
C17_Witness ==
    /\ last.op = "update"
    /\ last.threw = NoError
    /\ last.ret.status = "TODO"
    /\ \E j \in 1..Len(tasks) : tasks[j].id # last.ret.id /\ tasks[j].status = "CANCELLED"

----------------------------------------------------------------------------
(* SpecFields: creations and updates with valid and invalid field values *)

FieldCreates ==
    {[title |-> Abc, ownerId |-> o] : o \in UserIds}
    \cup {[title |-> PaddedReport, priority |-> "HIGH", ownerId |-> o] : o \in UserIds}
    \cup {[title |-> PaddedOneChar, ownerId |-> o] : o \in UserIds}
    \cup {[title |-> Abc, priority |-> "URGENT", ownerId |-> o] : o \in UserIds}
FieldUpdates ==
    {[title |-> PaddedReport, status |-> "DONE", priority |-> "LOW"],
     [title |-> PaddedOneChar], [title |-> Title101],
     [status |-> "ARCHIVED"], [priority |-> "URGENT"]}

NextFields ==
    \/ createUser([email |-> "a@example.com", password |-> "secret"]) /\ Bounded /\ Direct
    \/ \E dto \in FieldCreates : create(dto) /\ Bounded /\ Direct
    \/ \E id \in TaskIds, dto \in FieldUpdates : update(id, dto) /\ Direct
    \/ \E id \in TaskIds : delete(id) /\ Direct

SpecFields == Init /\ [][NextFields]_vars

\* the fields of a stored task have values of their kinds
WellFormed(t) ==
    /\ t.status \in Statuses
    /\ t.priority \in Priorities
    /\ t.title = trim(t.title)
    /\ Len(t.title) >= MinTitleLength
    /\ Len(t.title) <= MaxTitleLength

\* C18: every task in the Task Store has a status in {TODO, IN_PROGRESS, DONE,
\* CANCELLED}, a priority in {LOW, MEDIUM, HIGH} and a title that equals its
\* own trim and has length between 3 and 100; a task just created has status
\* TODO and, when the dto gives no priority, priority MEDIUM.
C18_TasksWellFormed ==
    /\ [](\A i \in 1..Len(tasks) : WellFormed(tasks[i]))
    /\ [][(Called("create") /\ last'.threw = NoError)
            => /\ tasks'[Len(tasks')] = last'.ret
               /\ last'.ret.status = "TODO"
               /\ "priority" \notin DOMAIN last'.args => last'.ret.priority = "MEDIUM"]_vars

\* C18 witness: a task has just been created with no priority in the dto, next
\* to a task created from a padded title that an update has set to DONE and LOW
C18_Witness ==
    /\ last.op = "create"
    /\ last.threw = NoError
    /\ "priority" \notin DOMAIN last.args
    /\ last.ret.priority = "MEDIUM"
    /\ \E j \in 1..Len(tasks) :
        tasks[j].status = "DONE" /\ tasks[j].priority = "LOW" /\ tasks[j].title = trim(PaddedReport)

----------------------------------------------------------------------------
(* Claims about the User Store *)

\* C19: user emails are unique: after any sequence of registrations
\* (UserService.createUser) no two users in the User Store have the same
\* email; a registration with an email that is already stored adds no second
\* user.
C19_UniqueEmails ==
    \A i, j \in 1..Len(users) : users[i].email = users[j].email => i = j

----------------------------------------------------------------------------
(* SpecHttp: requests handled by the controllers, with and without the     *)
(* identity headers                                                        *)

Roles == {"USER", "ADMIN"}
\* the headers of a request: none, one of the two, or both, for the first user
\* to register
HeaderSets ==
    {<< >>, "x-user-id" :> Uuid("user", 1), "x-role" :> "USER"}
    \cup {("x-user-id" :> Uuid("user", 1)) @@ ("x-role" :> r) : r \in Roles}
Request(headers, body, params) == [headers |-> headers, body |-> body, params |-> params]
RegisterBodies == {[email |-> "a@example.com", password |-> "secret"], [email |-> "a@example.com"]}
TaskBodies == {<< >>, [title |-> Abc]}

NextHttp ==
    \/ \E b \in RegisterBodies : register(Request(<< >>, b, << >>)) /\ Bounded /\ UNCHANGED queue
    \/ \E h \in HeaderSets, b \in TaskBodies : createTask(Request(h, b, << >>)) /\ Bounded /\ UNCHANGED queue
    \/ \E h \in HeaderSets, id \in TaskIds : deleteTask(Request(h, << >>, [id |-> id])) /\ UNCHANGED queue
    \/ \E h \in HeaderSets : getTasksByOwner(Request(h, << >>, << >>)) /\ UNCHANGED queue
    \/ \E h \in HeaderSets, p \in {<< >>} \cup {[userId |-> u] : u \in UserIds} :
          deleteTasksByOwner(Request(h, << >>, p)) /\ UNCHANGED queue
    \/ \E h \in HeaderSets : getProfile(Request(h, << >>, << >>)) /\ UNCHANGED queue

SpecHttp == Init /\ [][NextHttp]_vars

\* the endpoints that use the identity boundary
IdentityEndpoints ==
    {"createTask", "deleteTask", "getTasksByOwner", "deleteTasksByOwner", "getProfile"}

\* C20: for every endpoint that uses the identity boundary (createTask,
\* deleteTask, getTasksByOwner, deleteTasksByOwner, getProfile), a request
\* that lacks the x-user-id header or the x-role header fails with
\* Unauthorized (status 401), invokes no Coordinator operation, and leaves the
\* static identity context null when the handler returns.
C20_MissingHeadersUnauthorized ==
    [][(/\ res'.endpoint \in IdentityEndpoints
        /\ ~(HasHeader(res'.req, "x-user-id") /\ HasHeader(res'.req, "x-role")))
            => /\ res'.status = 401
               /\ res'.body.code = "UNAUTHORIZED"
               /\ UNCHANGED <<users, tasks, cache, tx, now, uuids, ticks, written, last>>
               /\ context' = Null]_vars

----------------------------------------------------------------------------
(* Claims about authorization at the controllers *)

\* the request carries both identity headers
Identified(req) == HasHeader(req, "x-user-id") /\ HasHeader(req, "x-role")

\* the user whose tasks a deleteTasksByOwner request targets
TargetOf(req) ==
    IF "userId" \in DOMAIN req.params THEN req.params.userId ELSE req.headers["x-user-id"]

\* C21: deleteTask by a caller whose role is not ADMIN fails with Forbidden
\* (403), and deleteTasksByOwner by a caller whose role is not ADMIN and whose
\* user id differs from the target's fails with Forbidden (403); in both cases
\* the Task Store and the cache are unchanged. A non-admin caller targeting
\* their own id, or an ADMIN targeting any id, reaches the Coordinator.
C21_DeleteAuthorization ==
    [][/\ (res'.endpoint = "deleteTask" /\ Identified(res'.req))
            => IF res'.req.headers["x-role"] # "ADMIN"
               THEN /\ res'.status = 403
                    /\ res'.body.code = "FORBIDDEN"
                    /\ UNCHANGED <<tasks, cache, last>>
               ELSE /\ last'.op = "delete"
                    /\ last'.args = res'.req.params.id
       /\ (res'.endpoint = "deleteTasksByOwner" /\ Identified(res'.req))
            => IF /\ res'.req.headers["x-role"] # "ADMIN"
                  /\ TargetOf(res'.req) # res'.req.headers["x-user-id"]
               THEN /\ res'.status = 403
                    /\ res'.body.code = "FORBIDDEN"
                    /\ UNCHANGED <<tasks, cache, last>>
               ELSE /\ last'.op = "deleteByOwner"
                    /\ last'.args = TargetOf(res'.req)]_vars

\* C21 witness: a caller with role USER has asked to delete a task that is in
\* the Task Store, was answered 403, and the task is still there
C21_Witness ==
    /\ res.endpoint = "deleteTask"
    /\ Identified(res.req)
    /\ res.req.headers["x-role"] = "USER"
    /\ res.status = 403
    /\ \E i \in 1..Len(tasks) : tasks[i].id = res.req.params.id

----------------------------------------------------------------------------
(* SpecOps: the seven operations of TaskService, one request at a time,    *)
(* with inputs that make each of them fail and succeed                     *)

OpsCreates == {[title |-> t, ownerId |-> Uuid("user", 1)] : t \in {Abc, WriteReport, TwoChars}}
OpsUpdates == {[title |-> REPORT], [title |-> TwoChars]}
OpsIdLists == {<< >>} \cup {<<id>> : id \in TaskIds}

NextOps ==
    \/ createUser([email |-> "a@example.com", password |-> "secret"]) /\ Bounded /\ Direct
    \/ \E dto \in OpsCreates : create(dto) /\ Bounded /\ Direct
    \/ \E id \in TaskIds, dto \in OpsUpdates : update(id, dto) /\ Direct
    \/ \E id \in TaskIds : delete(id) /\ Direct
    \/ \E o \in UserIds : deleteByOwner(o) /\ Direct
    \/ \E ids \in OpsIdLists : deleteMultiple(ids) /\ Direct
    \/ getById(Uuid("task", 1)) /\ Direct
    \/ getByOwner(Uuid("user", MaxUsers)) /\ Direct

SpecOps == Init /\ [][NextOps]_vars

\* the operations of the Task Lifecycle Coordinator
CoordinatorOps ==
    {"create", "update", "delete", "deleteByOwner", "deleteMultiple", "getById", "getByOwner"}

\* C22: with one request at a time, every Coordinator operation (create,
\* update, delete, deleteByOwner, deleteMultiple, getById, getByOwner) that
\* ends by raising an error leaves the Task Store exactly as it was before the
\* operation started.
C22_FailureLeavesStore ==
    [][(last'.op \in CoordinatorOps /\ last'.threw # NoError) => tasks' = tasks]_vars

\* C22 witness: an update of a stored task has been rejected by the
\* duplicate-title check, inside its transaction, and rolled back
C22_Witness ==
    /\ last.op = "update"
    /\ last.threw.name = "ValidationError"
    /\ last.txlog = <<"begin", "rollback">>
    /\ \E i \in 1..Len(tasks) : tasks[i].id = last.args.id

\* the call observed in last' failed its input validation
FailedValidation ==
    \/ last'.op = "create" /\ create_validate(last'.args, now) # NoError
    \/ last'.op = "update" /\ update_validate(last'.args.dto, now) # NoError
    \/ last'.op = "deleteMultiple" /\ Len(last'.args) = 0

\* C23: with one request at a time, whenever no Coordinator operation is in
\* progress the Transaction Log is inactive with an empty queue: every begin()
\* an operation issues is followed, before the operation returns or throws, by
\* exactly one commit() (on success) or exactly one rollback() (on failure),
\* and an operation that fails input validation issues no begin().
C23_TransactionsClosed ==
    /\ [](tx = [isActive |-> FALSE, operations |-> << >>])
    /\ [][last'.op \in CoordinatorOps =>
            /\ \/ last'.txlog = << >>
               \/ last'.txlog = <<"begin", "commit">> /\ last'.threw = NoError
               \/ last'.txlog = <<"begin", "rollback">> /\ last'.threw # NoError
            /\ FailedValidation => last'.txlog = << >>
            /\ (last'.op \in {"create", "update", "deleteMultiple"} /\ ~FailedValidation)
                    => last'.txlog # << >>]_vars

\* C23 witness: a create has failed inside its transaction (unknown owner) and
\* a transaction has been rolled back, after a create that committed
C23_Witness ==
    /\ last.op = "create"
    /\ last.txlog = <<"begin", "rollback">>
    /\ last.threw # NoError
    /\ Len(tasks) > 0
    /\ tx = [isActive |-> FALSE, operations |-> << >>]

----------------------------------------------------------------------------
(* SpecCoherent: reads of single tasks between the writes of the store;    *)
(* the clock stands still, so that no cache entry expires                  *)

CoherentCreates == {[title |-> t, ownerId |-> Uuid("user", 1)] : t \in {Abc, WriteReport}}
CoherentUpdates == {[status |-> "DONE"]}

NextCoherent ==
    \/ createUser([email |-> "a@example.com", password |-> "secret"]) /\ Bounded /\ Direct
    \/ \E dto \in CoherentCreates : create(dto) /\ Bounded /\ Direct
    \/ \E id \in TaskIds, dto \in CoherentUpdates : update(id, dto) /\ Direct
    \/ \E id \in TaskIds : delete(id) /\ Direct
    \/ deleteByOwner(Uuid("user", 1)) /\ Direct
    \/ \E id \in TaskIds : deleteMultiple(<<id>>) /\ Direct
    \/ \E id \in TaskIds : getById(id) /\ Direct

SpecCoherent == Init /\ [][NextCoherent]_vars

\* C24: with one request at a time, in every state reachable by Coordinator
\* operations every unexpired cache entry with key task:<id> holds a record
\* equal to the Task Store's current record for id (the task still exists), so
\* getById never returns a deleted task or out-of-date fields.
C24_TaskCacheCoherent ==
    /\ [](\A id \in TaskIds :
            (TaskKey(id) \in DOMAIN cache /\ ~(now > cache[TaskKey(id)].expiry))
                => cache[TaskKey(id)].data = Repo_findById(tasks, id))
    /\ [][(Called("getById") /\ last'.threw = NoError)
            => last'.ret = Repo_findById(tasks, last'.args)]_vars

\* C24 witness: a getById has just returned, from the cache, a task that an
\* update had set to DONE after it was first read, while the other task's
\* entry is gone
C24_Witness ==
    /\ last.op = "getById"
    /\ last.threw = NoError
    /\ last.reads = 0
    /\ last.ret.status = "DONE"
    /\ Len(tasks) = 1
    /\ uuids > 1

----------------------------------------------------------------------------
(* SpecOwnerList: reads of an owner's task list between the writes *)

NextOwnerList ==
    \/ createUser([email |-> "a@example.com", password |-> "secret"]) /\ Bounded /\ Direct
    \/ \E dto \in CoherentCreates : create(dto) /\ Bounded /\ Direct
    \/ \E id \in TaskIds, dto \in CoherentUpdates : update(id, dto) /\ Direct
    \/ \E id \in TaskIds : delete(id) /\ Direct
    \/ \E id \in TaskIds : deleteMultiple(<<id>>) /\ Direct
    \/ getByOwner(Uuid("user", 1)) /\ Direct

SpecOwnerList == Init /\ [][NextOwnerList]_vars

\* C25: after any sequence of Coordinator operations (including create,
\* update, delete or deleteMultiple performed after an earlier getByOwner
\* within the TTL window), getByOwner(ownerId) for an existing owner returns
\* exactly the tasks that the Task Store currently holds for that owner, with
\* their current field values.
C25_OwnerListFresh ==
    [][(Called("getByOwner") /\ last'.threw = NoError)
        => last'.ret = [list |-> Repo_findByOwner(tasks', last'.args)]]_vars

----------------------------------------------------------------------------
(* SpecDup: creations and updates with titles that are equal ignoring case *)

DupCreates == {[title |-> t, ownerId |-> o] : t \in {REPORT, PaddedReport, WriteReport}, o \in UserIds}
DupUpdates == {[title |-> REPORT], [title |-> PaddedReport]}

NextDup ==
    \/ createUser([email |-> "a@example.com", password |-> "secret"]) /\ Bounded /\ Direct
    \/ \E dto \in DupCreates : create(dto) /\ Bounded /\ Direct
    \/ \E id \in TaskIds, dto \in DupUpdates : update(id, dto) /\ Direct
    \/ \E id \in TaskIds : delete(id) /\ Direct

SpecDup == Init /\ [][NextDup]_vars

\* C26: with one request at a time, after any sequence of Coordinator create,
\* update and delete operations no two distinct tasks of the same owner have
\* trimmed titles that are equal ignoring case.
C26_NoEqualTitles ==
    \A i, j \in 1..Len(tasks) :
        (i # j /\ tasks[i].ownerId = tasks[j].ownerId)
            => toLowerCase(trim(tasks[i].title)) # toLowerCase(trim(tasks[j].title))

\* C26 witness: an owner has two tasks, and an update that would have given
\* the second the title of the first, in another case and padded, was rejected
C26_Witness ==
    /\ last.op = "update"
    /\ last.threw.name = "ValidationError"
    /\ last.args.dto.title = PaddedReport
    /\ \E i, j \in 1..Len(tasks) :
        /\ i # j
        /\ tasks[i].ownerId = tasks[j].ownerId
        /\ tasks[i].title = REPORT
        /\ tasks[j].id = last.args.id

----------------------------------------------------------------------------
(* SpecOverlapTx: transactional operations that overlap on the one         *)
(* TransactionManager                                                      *)

NextOverlapTx ==
    \/ createUser([email |-> "a@example.com", password |-> "secret"]) /\ Bounded /\ Direct
    \/ callCreate([title |-> Abc, ownerId |-> Uuid("user", 1)]) /\ Len(queue') <= MaxCalls
    \/ callUpdate(Uuid("task", 1), [status |-> "DONE"]) /\ Len(queue') <= MaxCalls
    \/ callDeleteByOwner(Uuid("user", 1)) /\ Len(queue') <= MaxCalls
    \/ callDeleteMultiple(<<Uuid("task", 1)>>) /\ Len(queue') <= MaxCalls
    \/ resume /\ Bounded

SpecOverlapTx == Init /\ [][NextOverlapTx]_vars

\* the operations that open a transaction
TransactionalOps == {"create", "update", "deleteByOwner", "deleteMultiple"}

\* C27: when two transactional Coordinator operations (create, update,
\* deleteByOwner, deleteMultiple) run on the one shared Transaction Log and are
\* interleaved at their await points, each operation still closes its own
\* transaction: commit() and rollback() never fail with the invalid-state
\* error, and an operation whose validation and checks all pass returns its
\* result rather than an error after having mutated the Task Store.
C27_EachClosesItsOwn ==
    last.op \in TransactionalOps => last.threw.name # "Error"

\* the call at the head of the queue ends in this step, by the commit() or the
\* rollback() of its transactional region
ClosesTransaction ==
    /\ queue # << >>
    /\ queue' = Tail(queue)
    /\ Head(queue).op \in TransactionalOps
    /\ last'.txlog # << >>

\* the call has passed its validation and checks and has written the store
HasMutated(call) ==
    \/ call.pc \in {"savedTask", "deletedCount"}
    \/ call.pc = "updated" /\ call.awaited # Undefined

\* C27 (amended): when two transactional Coordinator operations run on the one
\* shared Transaction Log and are interleaved at their await points, the
\* commit() or rollback() of an operation succeeds when the shared transaction
\* is still active, and the operation then returns its result if its
\* validation and checks all passed; it fails with the invalid-state error
\* when another operation has closed the transaction in the meantime, and the
\* operation then returns that error, its mutation of the Task Store staying
\* applied.
C27_CloseFollowsSharedState ==
    [][ClosesTransaction =>
        IF tx.isActive
        THEN /\ last'.threw.name # "Error"
             /\ ~tx'.isActive
             /\ HasMutated(Head(queue)) =>
                    /\ last'.threw = NoError
                    /\ last'.ret = Head(queue).awaited
        ELSE /\ last'.threw.name = "Error"
             /\ tx' = tx
             /\ tasks' = tasks]_vars

\* C27 witness: of two creates that overlapped, both have saved their task,
\* and the second to reach commit() has failed there and in its rollback()
C27_Witness ==
    /\ last.op = "create"
    /\ last.threw.name = "Error"
    /\ last.txlog = <<"begin", "commit", "rollback">>
    /\ Len(tasks) = 2
    /\ queue = << >>

----------------------------------------------------------------------------
(* SpecOverlapCreate: creations for one owner, with titles that are equal  *)
(* ignoring case, that overlap                                             *)

OverlapCreates == {[title |-> t, ownerId |-> Uuid("user", 1)] : t \in {REPORT, PaddedReport}}

NextOverlapCreate ==
    \/ createUser([email |-> "a@example.com", password |-> "secret"]) /\ Bounded /\ Direct
    \/ \E dto \in OverlapCreates : callCreate(dto) /\ Len(queue') <= MaxCalls
    \/ resume /\ Bounded

SpecOverlapCreate == Init /\ [][NextOverlapCreate]_vars

\* the titles contain one another, ignoring case
MutuallyContaining(s, t) ==
    /\ includes(toLowerCase(s), toLowerCase(t))
    /\ includes(toLowerCase(t), toLowerCase(s))

Resumed == queue # << >> /\ queue' # queue /\ Len(queue') <= Len(queue)

\* the owner has a stored task whose title contains the title, ignoring case
OwnerHasSimilar(ts, ownerId, title) ==
    \E i \in 1..Len(ts) :
        /\ ts[i].ownerId = ownerId
        /\ includes(toLowerCase(ts[i].title), toLowerCase(trim(title)))

----------------------------------------------------------------------------
(* SpecOverlapRead: reads of a task that overlap with its update and its   *)
(* deletion                                                                *)

NextOverlapRead ==
    \/ createUser([email |-> "a@example.com", password |-> "secret"]) /\ Bounded /\ Direct
    \/ callCreate([title |-> Abc, ownerId |-> Uuid("user", 1)]) /\ Len(queue') <= MaxCalls
    \/ callUpdate(Uuid("task", 1), [status |-> "DONE"]) /\ Len(queue') <= MaxCalls
    \/ callDelete(Uuid("task", 1)) /\ Len(queue') <= MaxCalls
    \/ callGetById(Uuid("task", 1)) /\ Len(queue') <= MaxCalls
    \/ resume /\ Bounded

SpecOverlapRead == Init /\ [][NextOverlapRead]_vars

\* with no call suspended, every cache entry of a task holds the record the
\* Task Store holds for it
CoherentWhenIdle ==
    queue = << >> =>
        \A id \in TaskIds :
            TaskKey(id) \in DOMAIN cache
                => cache[TaskKey(id)].data = Repo_findById(tasks, id)

\* the suspended call has written the store for id and has yet to invalidate
\* the cache entry of id
PendingInvalidation(call, id) ==
    \/ call.op = "update" /\ call.pc = "updated" /\ call.args.id = id
    \/ call.op = "delete" /\ call.pc = "deleted" /\ call.args = id

\* C29: when getById(id) is interleaved at its await point with update(id, dto)
\* or delete(id), then once both operations have finished, any cache entry
\* task:<id> equals the Task Store's current record for id: getById never
\* writes to the cache a record it read before the concurrent update or delete
\* took effect and invalidated the key (it writes a record that the store no
\* longer holds only while that update or delete has yet to invalidate the
\* key).
C29_ReadsCoherentAfterOverlap ==
    /\ [](CoherentWhenIdle)
    /\ [][(/\ Resumed
           /\ Head(queue).op = "getById"
           /\ Head(queue).awaited # Undefined
           /\ Head(queue).awaited # Repo_findById(tasks, Head(queue).args))
            => \E k \in 1..Len(queue') : PendingInvalidation(queue'[k], Head(queue).args)]_vars

\* C29 witness: a getById that read the store before an update of the task
\* wrote it has just returned the old record, while the update is suspended
\* between its write and its invalidation
C29_Witness ==
    /\ last.op = "getById"
    /\ last.threw = NoError
    /\ last.reads = 1
    /\ last.ret.status = "TODO"
    /\ Repo_findById(tasks, last.args) # Undefined
    /\ Repo_findById(tasks, last.args).status = "DONE"
    /\ cache[TaskKey(last.args)].data = last.ret
    /\ \E k \in 1..Len(queue) : PendingInvalidation(queue[k], last.args)
----------------------------------------------------------------------------
(* SpecScope: the endpoints that delete or edit tasks, asked by a caller   *)
(* with role USER or with no identity headers, while another user owns a   *)
(* task                                                                    *)

\* the headers of the caller: none, or the first user to register with role
\* USER
CallerHeaders == {<< >>, ("x-user-id" :> Uuid("user", 1)) @@ ("x-role" :> "USER")}
\* the headers of the other user, who creates the tasks
OwnerHeaders == ("x-user-id" :> Uuid("user", MaxUsers)) @@ ("x-role" :> "USER")
EditBodies == {<< >>, [status |-> "DONE"], [title |-> WriteReport]}
IdsBodies == {<< >>, [ids |-> << >>], [ids |-> <<Uuid("task", 1)>>]}

NextScope ==
    \/ \E b \in RegisterBodies : register(Request(<< >>, b, << >>)) /\ Bounded /\ UNCHANGED queue
    \/ createTask(Request(OwnerHeaders, [title |-> Abc], << >>)) /\ Bounded /\ UNCHANGED queue
    \/ \E h \in CallerHeaders : getTask(Request(h, << >>, [id |-> Uuid("task", 1)])) /\ UNCHANGED queue
    \/ \E h \in CallerHeaders, b \in EditBodies :
          editTask(Request(h, b, [id |-> Uuid("task", 1)])) /\ UNCHANGED queue
    \/ \E h \in CallerHeaders : deleteTask(Request(h, << >>, [id |-> Uuid("task", 1)])) /\ UNCHANGED queue
    \/ \E h \in CallerHeaders, p \in {<< >>, [userId |-> Uuid("user", MaxUsers)]} :
          deleteTasksByOwner(Request(h, << >>, p)) /\ UNCHANGED queue
    \/ \E h \in CallerHeaders, b \in IdsBodies :
          deleteMultipleTasks(Request(h, b, << >>)) /\ UNCHANGED queue

SpecScope == Init /\ [][NextScope]_vars

\* the request comes from the owner of the task, or from an ADMIN
MayChange(req, task) ==
    /\ Identified(req)
    /\ req.headers["x-role"] = "ADMIN" \/ req.headers["x-user-id"] = task.ownerId

\* C30: no request made by a caller who is not ADMIN, or who supplies no
\* identity headers at all, removes or modifies a task owned by a different
\* user: whatever the endpoint (deleteTask, deleteTasksByOwner,
\* deleteMultipleTasks, editTask), a task that the caller does not own is in
\* the Task Store after the request as it was before.
C30_OwnershipScoped ==
    [][\A i \in 1..Len(tasks) :
          ~MayChange(res'.req, tasks[i]) => \E j \in 1..Len(tasks') : tasks'[j] = tasks[i]]_vars

====
